---- MODULE Spec2Model ----
(***************************************************************************)
(* Verification model of the ingestion core of steam-indie-analytics:      *)
(* the rate limiters (src/src/collectors/rate_limiter.py), the API clients *)
(* (src/src/collectors/steam_api.py, src/collect_indie_games.py), the      *)
(* data validator (src/src/collectors/data_validator.py) and the           *)
(* collection pipeline (src/collect_indie_games.py, src/batch_collect.py). *)
(*                                                                         *)
(* Time is a discrete clock `now` (one tick = one second); datetime.now()  *)
(* and time.time() both read it.  Floats are modelled by exact rationals   *)
(* (token counts are kept multiplied by time_window).                      *)
(***************************************************************************)
EXTENDS Integers, Sequences, FiniteSets, TLC

VARIABLES
    now,            \* the wall clock read by datetime.now() / time.time()
    \* ---- SlidingWindowRateLimiter
    swMaxRequests,  \* config.max_requests
    swTimeWindow,   \* config.time_window
    swRequests,     \* self.requests: sequence of RequestRecord
    swGranted,      \* history: the acquire calls that returned 0, still in window
    swLastWait,     \* history: value returned by the last acquire (-1: none yet)
    swWakeAt,       \* the caller sleeps until this time before re-calling acquire
    swHist,         \* history of the last two acquire calls
    \* ---- TokenBucketRateLimiter
    tbMaxRequests,  \* config.max_requests
    tbTimeWindow,   \* config.time_window
    tbBurst,        \* config.burst_size
    tbTokens,       \* self.tokens * time_window (exact rational, scaled)
    tbLastRefill,   \* self.last_refill
    tbHist,         \* history of the last two acquire calls
    \* ---- one detail request of an API client
    clKind,         \* which client serves the call
    clSession,      \* SteamAPIClient.session is open (set by __aenter__)
    clPc,           \* "attempt" | "sleep" | "done"
    clResponses,    \* history: the outcome of every HTTP attempt, in order
    clSleeps,       \* history: every delay slept between attempts
    clAcquireCalls, \* history: rate_limiter.acquire() calls of the client
    clRecordCalls,  \* history: record_response calls of the client
    clResult,       \* what the call returned: "pending" | "None" | "data" | "raise"
    \* ---- AdaptiveRateLimiter; a timestamp is kept as its age now - timestamp
    adConfig,       \* the RateLimitConfig shared by self.config and base_limiter.config
    adLimits,       \* current_limit, min_limit, max_limit
    adRequests,     \* base_limiter.requests: [age, success]
    adRecentErrors, \* recent_errors: ages
    adRecentTimes,  \* recent_response_times: [age, response_time]
    adLastAdjustment, \* age of last_adjustment
    adHist,         \* max_requests at construction, the responses since the
                    \* last adjustment, what the last acquire did to the limit
    \* ---- cooperative tasks sharing one limiter
    wkKind,         \* the class of the shared limiter
    wkMaxRequests,  \* its max_requests
    wkRecords,      \* number of records it holds
    wkLedger,       \* self.requests of a limiter with record_response: per
                    \* record its success flag and, as history, the task
                    \* whose acquire appended it (0 once that task's call
                    \* has ended) and how that call ended
    wkLock,         \* the task holding self._lock, 0 when it is free
    wkPc,           \* per task: "idle" | "blocked" | "sleep" | "sleep_locked" | "http"
    wkInterfered,   \* history: a write ran while another task was suspended
                    \* between the read and the write of its acquire
    \* ---- DataQualityAnalyzer
    vaPayload,      \* the game_data of the last analyze_game_data call
    vaResults,      \* self.validation_results
    vaOutcome,      \* "idle" | "returned" | "raised": how the last call ended
    vaReport,       \* <<r>> for the report get_summary_report returned since
                    \* the results last changed, else <<>>
    vaHeld,         \* the caller's variable bound to a returned issue list:
                    \* whether it is bound, and the game_data of that call
    \* ---- the collection loop (collect_indie_games / run_collection_batch)
    plDriver,       \* which of the two loops runs
    plAppIds,       \* app_ids / new_app_ids: the candidate list
    plIndex,        \* 1-based position of the loop in plAppIds
    plPc,           \* "check" | "fetch" | "review" | "save" | "finished" | "crashed"
    plGameData,     \* game_data of the current candidate
    plStorage,      \* app ids of the rows of the games table
    plConnOpen,     \* self.db_conn is still connected
    plCounters,     \* total_processed, skipped_existing, indie_count
    plCand,         \* history, per candidate position: state, check, existed,
                    \* fetched, http, saved, excluded, included, verdict,
                    \* upserted
    \* ---- SteamAPIRateLimiter
    stMaxRequests,  \* self.max_requests
    stTimeWindow,   \* self.time_window
    stRequests,     \* self.requests: the recorded times, oldest first
    stLock,         \* the task inside `async with self._lock`, 0 when free
    stLocalNow,     \* the local `now` of the task sleeping inside the lock
    stWakeAt,       \* when its asyncio.sleep(sleep_time) is over
    stReturned,     \* history: the times at which acquire calls returned,
                    \* those of the trailing time_window
    \* ---- BatchCollector.run_full_collection
    bcTarget,       \* self.target_count
    bcBatchSize,    \* self.batch_size
    bcCatalogue,    \* the app ids get_steam_game_list draws from: the known
                    \* indie games and the games of the Steam app list
    bcProgress,     \* progress: total_processed, total_collected,
                    \* completed_batches
    bcPc,           \* "batch" | "rest" | "recover" | "done"
    bcRepeated      \* history: a batch processed an id of completed_batches

swVars == <<swMaxRequests, swTimeWindow, swRequests, swGranted, swLastWait, swWakeAt,
           swHist>>
tbVars == <<tbMaxRequests, tbTimeWindow, tbBurst, tbTokens, tbLastRefill, tbHist>>
clVars == <<clKind, clSession, clPc, clResponses, clSleeps, clAcquireCalls,
            clRecordCalls, clResult>>
adVars == <<adConfig, adLimits, adRequests, adRecentErrors, adRecentTimes,
            adLastAdjustment, adHist>>
wkVars == <<wkKind, wkMaxRequests, wkRecords, wkLedger, wkLock, wkPc, wkInterfered>>
vaVars == <<vaPayload, vaResults, vaOutcome, vaReport, vaHeld>>
plVars == <<plDriver, plAppIds, plIndex, plPc, plGameData, plStorage, plConnOpen,
            plCounters, plCand>>
stVars == <<stMaxRequests, stTimeWindow, stRequests, stLock, stLocalNow, stWakeAt,
            stReturned>>
bcVars == <<bcTarget, bcBatchSize, bcCatalogue, bcProgress, bcPc, bcRepeated>>
vars == <<now, swVars, tbVars, clVars, adVars, wkVars, vaVars, plVars, stVars, bcVars>>

\* ---- bounds of the model
MaxTime == 5
MaxRequestsBound == 2
MaxWindowBound == 2
MaxRecords == 4
MaxWeight == 2
MaxBurstBound == 2
MaxCandidates == 2
MaxIssues == 3
MaxAdRecords == 2
MaxAdResponses == 1
MaxWorkers == 3
MaxTarget == 2
MaxBatchSize == 2

Max2(a, b) == IF a >= b THEN a ELSE b
Min2(a, b) == IF a <= b THEN a ELSE b

Tick ==
    /\ now < MaxTime
    /\ now' = now + 1

(***************************************************************************)
(* RateLimitConfig.__post_init__: the configurations construction accepts. *)
(* burst_size is only defaulted when None, never range-checked.            *)
(***************************************************************************)
ConfigAccepted(max_requests, time_window) ==
    /\ ~(max_requests <= 0)
    /\ ~(time_window <= 0)

\* the burst_size argument: omitted (None) or an explicit integer
BurstOmitted == [given |-> FALSE, value |-> 0]
BurstGiven(n) == [given |-> TRUE, value |-> n]

\* RateLimitConfig defaults: backoff_factor = 1.5, max_backoff_time = 300.0
backoff_factor == [num |-> 3, den |-> 2]
max_backoff_time == 300

\* `if self.burst_size is None: self.burst_size = self.max_requests`
PostInitBurstSize(burst_size, max_requests) ==
    IF ~burst_size.given THEN max_requests ELSE burst_size.value

(***************************************************************************)
(* SlidingWindowRateLimiter                                                *)
(***************************************************************************)
RequestRecord(t) == [timestamp |-> t, success |-> TRUE]

SWPrune(reqs, t, window) ==
    SelectSeq(reqs, LAMBDA req : req.timestamp > t - window)

SWCurrentRequests(reqs) ==
    Len(SelectSeq(reqs, LAMBDA req : req.success))

SWOldest(reqs) ==
    CHOOSE t \in {reqs[i].timestamp : i \in 1..Len(reqs)} :
        \A i \in 1..Len(reqs) : t <= reqs[i].timestamp

SWWaitTimeShort(reqs, t, window) ==
    IF reqs # <<>> THEN Max2(0, SWOldest(reqs) + window - t - 1) ELSE window

SWWaitTime(reqs, t, window) ==
    IF reqs # <<>> THEN Max2(0, SWOldest(reqs) + window - t) ELSE window

\* history record: no acquire call yet
SWNoHist ==
    [calls |-> 0, weight |-> 0, grantsBefore |-> 0, clean |-> TRUE,
     prevWait |-> -1, prevWeight |-> 0, prevClean |-> TRUE]

\* every record is marked successful and every grant in the window had weight 1
SWClean(reqs, granted) ==
    /\ \A i \in 1..Len(reqs) : reqs[i].success
    /\ \A i \in 1..Len(granted) : granted[i].weight = 1

SWInit ==
    /\ swMaxRequests \in 1..MaxRequestsBound
    /\ swTimeWindow \in 1..MaxWindowBound
    /\ ConfigAccepted(swMaxRequests, swTimeWindow)
    /\ swRequests = <<>>
    /\ swGranted = <<>>
    /\ swLastWait = -1
    /\ swWakeAt = 0
    /\ swHist = SWNoHist

\* acquire(weight), the whole body under self._lock
SWAcquire(weight) ==
    /\ now >= swWakeAt
    /\ Len(swRequests) < MaxRecords
    /\ LET pruned == SWPrune(swRequests, now, swTimeWindow)
           kept == SWPrune(swGranted, now, swTimeWindow)
       IN  IF SWCurrentRequests(pruned) + weight > swMaxRequests
           THEN LET wait_time == SWWaitTime(pruned, now, swTimeWindow)
                IN  /\ swRequests' = pruned
                    /\ swGranted' = kept
                    /\ swLastWait' = wait_time
                    /\ swWakeAt' = now + wait_time
           ELSE /\ swRequests' = Append(pruned, RequestRecord(now))
                /\ swGranted' = Append(kept, [timestamp |-> now, weight |-> weight])
                /\ swLastWait' = 0
                /\ swWakeAt' = now
    /\ swHist' = [calls |-> Min2(swHist.calls + 1, 2),
                  weight |-> weight,
                  grantsBefore |-> Len(SWPrune(swGranted, now, swTimeWindow)),
                  clean |-> SWClean(SWPrune(swRequests, now, swTimeWindow),
                                    SWPrune(swGranted, now, swTimeWindow)),
                  prevWait |-> swLastWait,
                  prevWeight |-> swHist.weight,
                  prevClean |-> swHist.clean]
    /\ UNCHANGED <<swMaxRequests, swTimeWindow>>

\* record_response(success, ...): writes onto self.requests[-1]
SWRecordResponse(success) ==
    /\ IF swRequests # <<>>
       THEN swRequests' = [swRequests EXCEPT ![Len(swRequests)].success = success]
       ELSE UNCHANGED swRequests
    /\ UNCHANGED <<swMaxRequests, swTimeWindow, swGranted, swLastWait, swWakeAt,
                   swHist>>

(***************************************************************************)
(* TokenBucketRateLimiter.  tbTokens = tokens * time_window, so that the   *)
(* refill elapsed * (max_requests / time_window) is the integer            *)
(* elapsed * max_requests.                                                 *)
(***************************************************************************)
TBRefillNoCap(tokens, burst, elapsed, max_requests, time_window) ==
    tokens + elapsed * max_requests

TBRefill(tokens, burst, elapsed, max_requests, time_window) ==
    Min2(burst * time_window, tokens + elapsed * max_requests)

BurstSizeArgs == {BurstOmitted} \cup {BurstGiven(n) : n \in (-1)..MaxBurstBound}

TBDeductAlways(refilled, needed) == refilled - needed

\* `if self.tokens < weight: return wait_time` / `self.tokens -= weight`
TBDeduct(refilled, needed) ==
    IF refilled < needed THEN refilled ELSE refilled - needed

TBInit ==
    /\ tbMaxRequests \in (-1)..MaxRequestsBound
    /\ tbTimeWindow \in (-1)..MaxWindowBound
    /\ ConfigAccepted(tbMaxRequests, tbTimeWindow)
    /\ \E burst_size \in BurstSizeArgs :
          tbBurst = PostInitBurstSize(burst_size, tbMaxRequests)
    /\ tbTokens = tbBurst * tbTimeWindow
    /\ tbLastRefill = 0
    /\ tbHist = [calls |-> 0, prevTime |-> 0, prevTokens |-> 0, prevWait |-> 0,
                 time |-> 0, evaluated |-> 0, wait |-> 0]

\* acquire(weight), the whole body under self._lock
TBAcquire(weight) ==
    LET elapsed == now - tbLastRefill
        refilled == TBRefill(tbTokens, tbBurst, elapsed, tbMaxRequests, tbTimeWindow)
        needed == weight * tbTimeWindow
        granted == ~(refilled < needed)
    IN  /\ tbLastRefill' = now
        /\ tbTokens' = TBDeduct(refilled, needed)
        /\ tbHist' = [calls |-> Min2(tbHist.calls + 1, 2),
                      prevTime |-> tbHist.time,
                      prevTokens |-> tbTokens,
                      prevWait |-> tbHist.wait,
                      time |-> now,
                      evaluated |-> refilled,
                      wait |-> IF granted THEN 0 ELSE needed - refilled]
        /\ UNCHANGED <<tbMaxRequests, tbTimeWindow, tbBurst>>


(***************************************************************************)
(* The API clients.  One detail request is                                 *)
(*   "steam_api": SteamAPIClient.get_app_details, whose _make_request is   *)
(*                wrapped by tenacity's @retry, or                         *)
(*   "collector": IndieGameCollector.get_game_details, a for loop over     *)
(*                range(max_retries).                                      *)
(* The outcome of one HTTP attempt is one of                               *)
(*   "ok"           200, the body's entry has success=true and data        *)
(*   "soft_fail"    200, the entry has success=false or is missing         *)
(*   "s429"         HTTP 429                                               *)
(*   "http_error"   another 4xx/5xx status                                 *)
(*   "timeout"      asyncio.TimeoutError                                   *)
(*   "client_error" aiohttp.ClientError raised by the session              *)
(*   "exception"    any other Exception raised by the session              *)
(***************************************************************************)
ClientKinds == {"steam_api", "collector"}
Outcomes == {"ok", "soft_fail", "s429", "http_error", "timeout", "client_error",
             "exception"}

max_retries == 3
stop_after_attempt == 3
wait_exponential_min == 4
wait_exponential_max == 10

RECURSIVE Pow2(_)
Pow2(n) == IF n = 0 THEN 1 ELSE 2 * Pow2(n - 1)

CollectorOnOutcomeNoRetry(outcome, attempt) ==
    IF outcome = "ok" THEN "return_data" ELSE "return_none"

\* get_game_details: what the loop body does with the outcome of attempt
\* number `attempt` (0-based): "return_data", "return_none", "sleep" (then
\* continue) or "fall_through" (the handler only prints; the loop goes on).
CollectorOnOutcome(outcome, attempt) ==
    CASE outcome = "ok" -> "return_data"
      [] outcome = "soft_fail" -> "return_none"
      [] outcome = "s429" -> "sleep"
      [] outcome = "http_error" -> "return_none"
      [] OTHER -> IF attempt = max_retries - 1 THEN "fall_through" ELSE "sleep"

CollectorDelay(outcome, attempt) ==
    IF outcome = "s429" THEN Pow2(attempt) ELSE 1

\* _make_request: raise_for_status() turns 4xx/5xx into ClientResponseError (a
\* ClientError); retry_if_exception_type retries ClientError and TimeoutError.
MakeRequestRaises(outcome) ==
    outcome \in {"s429", "http_error", "timeout", "client_error", "exception"}

TenacityRetries(outcome) ==
    outcome \in {"s429", "http_error", "timeout", "client_error"}

\* wait_exponential(multiplier=1, min=4, max=10) after attempt attempt_number
TenacityWait(attempt_number) ==
    Max2(wait_exponential_min, Min2(Pow2(attempt_number - 1), wait_exponential_max))

GetAppDetailsResultNoCatch(raised, outcome) ==
    IF raised THEN "raise"
    ELSE IF outcome = "ok" THEN "data" ELSE "None"

\* get_app_details: the value returned once _make_request returned the body
\* (raised = FALSE) or raised, RetryError included (raised = TRUE).
GetAppDetailsResult(raised, outcome) ==
    IF raised THEN "None"
    ELSE IF outcome = "ok" THEN "data" ELSE "None"

\* get_game_details: the value returned when the for loop runs out.
CollectorLoopExhausted == "None"

CLInit ==
    /\ clKind \in ClientKinds
    /\ clSession \in BOOLEAN
    /\ clPc = "attempt"
    /\ clResponses = <<>>
    /\ clSleeps = <<>>
    /\ clAcquireCalls = 0
    /\ clRecordCalls = 0
    /\ clResult = "pending"

CLIdle ==
    /\ clKind = "collector" /\ clSession = TRUE /\ clPc = "done"
    /\ clResponses = <<>> /\ clSleeps = <<>> /\ clAcquireCalls = 0
    /\ clRecordCalls = 0 /\ clResult = "pending"

\* One pass through _make_request, with tenacity's decision after it.  No
\* statement of the client calls record_response.
SteamApiAttempt(outcome) ==
    /\ clKind = "steam_api"
    /\ clPc = "attempt"
    /\ clAcquireCalls' = clAcquireCalls + 1
    /\ IF ~clSession
       THEN \* RuntimeError: not retried, caught by get_app_details
            /\ clResult' = GetAppDetailsResult(TRUE, "exception")
            /\ clPc' = "done"
            /\ UNCHANGED <<clResponses, clSleeps>>
       ELSE /\ clResponses' = Append(clResponses, outcome)
            /\ IF ~MakeRequestRaises(outcome)
               THEN /\ clResult' = GetAppDetailsResult(FALSE, outcome)
                    /\ clPc' = "done"
                    /\ UNCHANGED clSleeps
               ELSE IF TenacityRetries(outcome)
                       /\ Len(clResponses) + 1 < stop_after_attempt
               THEN /\ clSleeps' = Append(clSleeps, TenacityWait(Len(clResponses) + 1))
                    /\ clPc' = "sleep"
                    /\ UNCHANGED clResult
               ELSE /\ clResult' = GetAppDetailsResult(TRUE, outcome)
                    /\ clPc' = "done"
                    /\ UNCHANGED clSleeps
    /\ UNCHANGED <<clKind, clSession, clRecordCalls>>

\* One iteration of the for loop of get_game_details up to its return,
\* continue or sleep.  The collector has no limiter and calls neither
\* acquire nor record_response.
CollectorAttempt(outcome) ==
    /\ clKind = "collector"
    /\ clPc = "attempt"
    /\ LET attempt == Len(clResponses)
           action == CollectorOnOutcome(outcome, attempt)
       IN  /\ clResponses' = Append(clResponses, outcome)
           /\ CASE action = "return_data" ->
                     /\ clResult' = "data" /\ clPc' = "done" /\ UNCHANGED clSleeps
                [] action = "return_none" ->
                     /\ clResult' = "None" /\ clPc' = "done" /\ UNCHANGED clSleeps
                [] action = "sleep" ->
                     /\ clSleeps' = Append(clSleeps, CollectorDelay(outcome, attempt))
                     /\ clPc' = "sleep"
                     /\ UNCHANGED clResult
                [] OTHER ->
                     \* last attempt: the except clause prints, the loop ends
                     /\ clResult' = CollectorLoopExhausted
                     /\ clPc' = "done"
                     /\ UNCHANGED clSleeps
    /\ UNCHANGED <<clKind, clSession, clAcquireCalls, clRecordCalls>>

\* asyncio.sleep returns: tenacity re-enters _make_request; the collector's
\* `continue` starts the next iteration or leaves the loop.
ClientWake ==
    /\ clPc = "sleep"
    /\ IF clKind = "collector" /\ ~(Len(clResponses) < max_retries)
       THEN clResult' = CollectorLoopExhausted /\ clPc' = "done"
       ELSE clPc' = "attempt" /\ UNCHANGED clResult
    /\ UNCHANGED <<clKind, clSession, clResponses, clSleeps, clAcquireCalls,
                   clRecordCalls>>

(***************************************************************************)
(* DataQualityAnalyzer.  A payload (game_data) is a record of its fields;  *)
(* a field's value is tagged "absent" (key not in the dict), "none" (key   *)
(* present with the value None) or "val".  Texts are represented by their  *)
(* length, publisher names by the major-publisher keywords they contain,   *)
(* genre and category dicts by their lower-cased description, a release    *)
(* date string by the year the regular expression finds in it (0: none),   *)
(* prices by the integer number of cents.                                  *)
(***************************************************************************)
AbsentN == [tag |-> "absent", v |-> 0]
NoneN == [tag |-> "none", v |-> 0]
AbsentS == [tag |-> "absent", v |-> ""]
NoneS == [tag |-> "none", v |-> ""]
AbsentB == [tag |-> "absent", v |-> FALSE]
AbsentL == [tag |-> "absent", v |-> <<>>]
NoneL == [tag |-> "none", v |-> <<>>]
Val(x) == [tag |-> "val", v |-> x]

\* a price_overview / release_date dict; empty = TRUE is the dict {}
NoDict == [empty |-> TRUE, final |-> AbsentN, date |-> AbsentN]
AbsentD == [tag |-> "absent", v |-> NoDict]
NoneD == [tag |-> "none", v |-> NoDict]
PriceDict(final) == Val([empty |-> FALSE, final |-> final, date |-> AbsentN])
DateDict(date) == Val([empty |-> FALSE, final |-> AbsentN, date |-> date])
EmptyDict == Val(NoDict)

IndieName == [text |-> "ConcernedApe", contains |-> {}]
MajorName == [text |-> "SEGA Europe", contains |-> {"sega"}]

Has(data, field) == data[field].tag # "absent"
IsNone(data, field) == data[field].tag = "none"
IsVal(data, field) == data[field].tag = "val"

\* Python truthiness of data.get(field)
TruthyN(data, field) == IsVal(data, field) /\ data[field].v # 0
TruthyL(data, field) == IsVal(data, field) /\ data[field].v # <<>>
TruthyD(data, field) == IsVal(data, field) /\ ~data[field].v.empty
TruthyB(data, field) == IsVal(data, field) /\ data[field].v

\* data.get(field, 0) or 0
NumOrZero(data, field) == IF IsVal(data, field) THEN data[field].v ELSE 0
\* data.get(field, []) or []
ListOrEmpty(data, field) == IF IsVal(data, field) THEN data[field].v ELSE <<>>

ValidationResult(field, severity, rule, original, suggested) ==
    [field_name |-> field, severity |-> severity, validation_rule |-> rule,
     original_value |-> original, suggested_value |-> suggested]

NoValue == <<>>

current_year == 2025

\* SteamGameValidator(**game_data) constructs without a ValidationError
PydanticAccepts(data) ==
    /\ IsVal(data, "app_id") /\ data["app_id"].v > 0
    /\ IsVal(data, "name") /\ data["name"].v >= 1 /\ data["name"].v <= 500
    /\ IsVal(data, "type")
    /\ ~IsNone(data, "is_free")
    /\ IsVal(data, "detailed_description") => data["detailed_description"].v <= 50000
    /\ IsVal(data, "short_description") => data["short_description"].v <= 1000
    /\ IsVal(data, "positive_reviews") => data["positive_reviews"].v >= 0
    /\ IsVal(data, "negative_reviews") => data["negative_reviews"].v >= 0
    /\ IsVal(data, "total_reviews") => data["total_reviews"].v >= 0
    /\ IsVal(data, "recommendation_score") =>
          (data["recommendation_score"].v >= 0 /\ data["recommendation_score"].v <= 100)

PydanticCheck(data) ==
    IF PydanticAccepts(data)
    THEN <<ValidationResult("overall", "info", "", NoValue, NoValue)>>
    ELSE <<ValidationResult("overall", "error", "", NoValue, NoValue)>>

\* Each check yields [raised, issues]: the results it added, and whether it
\* ended by raising (the results added before the raise stay in the list).
Done(issues) == [raised |-> FALSE, issues |-> issues]
Raised(issues) == [raised |-> TRUE, issues |-> issues]

critical_fields == <<"app_id", "name", "type">>
recommended_fields == <<"developers", "publishers", "genres", "release_date">>

CriticalIssue(data, field) ==
    IF ~Has(data, field) \/ IsNone(data, field)
    THEN <<ValidationResult(field, "critical", "completeness_check", NoValue, NoValue)>>
    ELSE <<>>

MissingRecommended(data, field) ==
    \/ ~Has(data, field)
    \/ IsNone(data, field)
    \/ (field # "release_date" /\ data[field].v = <<>>)

ShortDescription(data, field) ==
    IF TruthyN(data, field) /\ data[field].v < 10
    THEN <<ValidationResult(field, "warning", "completeness_check",
                            <<data[field].v>>, NoValue)>>
    ELSE <<>>

CheckCompleteness(data) ==
    Done(CriticalIssue(data, critical_fields[1])
         \o CriticalIssue(data, critical_fields[2])
         \o CriticalIssue(data, critical_fields[3])
         \o (IF \E i \in 1..Len(recommended_fields) :
                    MissingRecommended(data, recommended_fields[i])
             THEN <<ValidationResult("metadata", "warning", "completeness_check",
                                     NoValue, NoValue)>>
             ELSE <<>>)
         \o ShortDescription(data, "detailed_description")
         \o ShortDescription(data, "short_description"))

\* price_info.get('final', 0) is compared with 0: None raises TypeError
FinalIsNone(data) == data["price_overview"].v.final.tag = "none"
FinalOrZero(data) ==
    IF data["price_overview"].v.final.tag = "val"
    THEN data["price_overview"].v.final.v ELSE 0

Descriptions(list) == {list[i] : i \in 1..Len(list)}

ReviewIssue(data) ==
    LET positive == NumOrZero(data, "positive_reviews")
        negative == NumOrZero(data, "negative_reviews")
        total == NumOrZero(data, "total_reviews")
        calculated_total == positive + negative
    IN  IF (positive > 0 \/ negative > 0) /\ total # calculated_total
        THEN <<ValidationResult("reviews", "warning", "consistency_check",
                                <<total>>, <<calculated_total>>)>>
        ELSE <<>>

OverlapIssue(data) ==
    LET genres == ListOrEmpty(data, "genres")
        categories == ListOrEmpty(data, "categories")
    IN  IF genres # <<>> /\ categories # <<>>
           /\ Descriptions(genres) \cap Descriptions(categories) # {}
        THEN <<ValidationResult("classification", "info", "consistency_check",
                                NoValue, NoValue)>>
        ELSE <<>>

CheckConsistency(data) ==
    IF TruthyB(data, "is_free") /\ TruthyD(data, "price_overview") /\ FinalIsNone(data)
    THEN Raised(<<>>)
    ELSE Done((IF TruthyB(data, "is_free") /\ TruthyD(data, "price_overview")
                  /\ FinalOrZero(data) > 0
               THEN <<ValidationResult("pricing", "error", "consistency_check",
                                       <<FinalOrZero(data)>>, NoValue)>>
               ELSE <<>>)
              \o ReviewIssue(data)
              \o OverlapIssue(data))

validator_major_publishers ==
    {"valve", "electronic arts", "activision", "ubisoft", "bethesda",
     "square enix", "capcom", "bandai namco", "sega", "take-two"}

MajorPublisherIssue(data) ==
    LET publishers == ListOrEmpty(data, "publishers")
    IN  IF \E i \in 1..Len(publishers) :
               publishers[i].contains \cap validator_major_publishers # {}
        THEN <<ValidationResult("classification", "info", "business_rules",
                                NoValue, NoValue)>>
        ELSE <<>>

\* price_in_dollars = final_price / 100 against 200 and 0.5, in cents
PriceRangeIssue(data) ==
    IF TruthyD(data, "price_overview") /\ FinalOrZero(data) > 0
    THEN IF FinalOrZero(data) > 200 * 100
         THEN <<ValidationResult("pricing", "warning", "business_rules",
                                 <<FinalOrZero(data)>>, NoValue)>>
         ELSE IF 2 * FinalOrZero(data) < 100
         THEN <<ValidationResult("pricing", "info", "business_rules",
                                 <<FinalOrZero(data)>>, NoValue)>>
         ELSE <<>>
    ELSE <<>>

ReleaseYear(data) == data["release_date"].v.date.v

ReleaseDateIssue(data) ==
    IF TruthyD(data, "release_date") /\ data["release_date"].v.date.tag = "val"
       /\ ReleaseYear(data) # 0
    THEN IF ReleaseYear(data) > current_year + 2 \/ ReleaseYear(data) < 1990
         THEN <<ValidationResult("release_date", "warning", "business_rules",
                                 <<ReleaseYear(data)>>, NoValue)>>
         ELSE <<>>
    ELSE <<>>

CheckBusinessRules(data) ==
    IF IsNone(data, "name")
    THEN \* data.get('name', '').lower() on None: AttributeError
         Raised(<<>>)
    ELSE IF TruthyD(data, "price_overview") /\ FinalIsNone(data)
    THEN Raised(MajorPublisherIssue(data))
    ELSE Done(MajorPublisherIssue(data) \o PriceRangeIssue(data)
              \o ReleaseDateIssue(data))

TooLong(data, field, max_length) ==
    IF TruthyN(data, field) /\ data[field].v > max_length
    THEN <<ValidationResult(field, "warning", "anomaly_detection",
                            <<data[field].v>>, NoValue)>>
    ELSE <<>>

CheckDataAnomalies(data) ==
    LET total_reviews == NumOrZero(data, "total_reviews")
        rec_score == data["recommendation_score"]
    IN  Done((IF total_reviews > 1000000
              THEN <<ValidationResult("reviews", "info", "anomaly_detection",
                                      <<total_reviews>>, NoValue)>>
              ELSE <<>>)
             \o (IF rec_score.tag = "val" /\ (rec_score.v > 100 \/ rec_score.v < 0)
                 THEN <<ValidationResult("recommendation_score", "error",
                                         "anomaly_detection", <<rec_score.v>>,
                                         <<Max2(0, Min2(100, rec_score.v))>>)>>
                 ELSE <<>>)
             \o TooLong(data, "name", 500)
             \o TooLong(data, "short_description", 1000)
             \o TooLong(data, "detailed_description", 50000))

\* run `step` after `acc` unless `acc` already raised
Then(acc, step) ==
    IF acc.raised THEN acc
    ELSE [raised |-> step.raised, issues |-> acc.issues \o step.issues]

\* analyze_game_data: the list left in self.validation_results and whether
\* the call raised instead of returning it
AnalyzeGameData(data) ==
    Then(Then(Then(Then(Done(PydanticCheck(data)),
                        CheckCompleteness(data)),
                   CheckConsistency(data)),
              CheckBusinessRules(data)),
         CheckDataAnomalies(data))

\* ---- the payloads analysed: each base payload, and each base payload with
\* one field replaced by another value of the field's domain
BasePayload ==
    [app_id |-> Val(1), name |-> Val(14), type |-> Val("game"),
     is_free |-> Val(FALSE),
     detailed_description |-> Val(100), short_description |-> Val(50),
     developers |-> Val(<<IndieName>>), publishers |-> Val(<<IndieName>>),
     price_overview |-> PriceDict(Val(1499)),
     release_date |-> DateDict(Val(2016)),
     categories |-> Val(<<"single-player">>), genres |-> Val(<<"indie", "rpg">>),
     positive_reviews |-> Val(80), negative_reviews |-> Val(20),
     total_reviews |-> Val(100), recommendation_score |-> NoneN]

\* a free game that still carries a price
FreePayload ==
    [BasePayload EXCEPT !["is_free"] = Val(TRUE),
                        !["price_overview"] = PriceDict(Val(999))]

\* only the required fields
SparsePayload ==
    [app_id |-> Val(1), name |-> Val(14), type |-> Val("game"),
     is_free |-> AbsentB,
     detailed_description |-> AbsentN, short_description |-> AbsentN,
     developers |-> AbsentL, publishers |-> AbsentL,
     price_overview |-> AbsentD, release_date |-> AbsentD,
     categories |-> AbsentL, genres |-> AbsentL,
     positive_reviews |-> AbsentN, negative_reviews |-> AbsentN,
     total_reviews |-> AbsentN, recommendation_score |-> AbsentN]

BasePayloads == {BasePayload, FreePayload, SparsePayload}

PayloadFields == DOMAIN BasePayload

FieldDomain(field) ==
    CASE field = "app_id" -> {AbsentN, NoneN, Val(1), Val(0)}
      [] field = "name" -> {AbsentN, NoneN, Val(0), Val(14), Val(501)}
      [] field = "type" -> {AbsentS, NoneS, Val("game"), Val("dlc")}
      [] field = "is_free" -> {AbsentB, Val(FALSE), Val(TRUE)}
      [] field = "detailed_description" -> {AbsentN, NoneN, Val(5), Val(100), Val(50001)}
      [] field = "short_description" -> {AbsentN, NoneN, Val(5), Val(50), Val(1001)}
      [] field = "developers" -> {AbsentL, NoneL, Val(<<>>), Val(<<IndieName>>)}
      [] field = "publishers" ->
            {AbsentL, NoneL, Val(<<>>), Val(<<IndieName>>), Val(<<MajorName>>)}
      [] field = "price_overview" ->
            {AbsentD, NoneD, EmptyDict, PriceDict(AbsentN), PriceDict(NoneN),
             PriceDict(Val(0)), PriceDict(Val(25)), PriceDict(Val(1499)),
             PriceDict(Val(25000))}
      [] field = "release_date" ->
            {AbsentD, NoneD, DateDict(AbsentN), DateDict(Val(0)), DateDict(Val(2016)),
             DateDict(Val(1985)), DateDict(Val(2099))}
      [] field = "categories" -> {AbsentL, NoneL, Val(<<"single-player">>), Val(<<"indie">>)}
      [] field = "genres" -> {AbsentL, NoneL, Val(<<>>), Val(<<"indie", "rpg">>),
                              Val(<<"action">>)}
      [] field = "positive_reviews" -> {AbsentN, NoneN, Val(0), Val(80)}
      [] field = "negative_reviews" -> {AbsentN, NoneN, Val(0), Val(20)}
      [] field = "total_reviews" ->
            {AbsentN, NoneN, Val(0), Val(100), Val(104), Val(200), Val(2000000)}
      [] OTHER -> {AbsentN, NoneN, Val(50), Val(150), Val(-5)}

Deviations(base) ==
    {base} \cup UNION {{[base EXCEPT ![field] = value] : value \in FieldDomain(field)} :
                         field \in PayloadFields}

Payloads == UNION {Deviations(base) : base \in BasePayloads}

NoHeld == [bound |-> FALSE, game_data |-> BasePayload]

VAInit ==
    /\ vaPayload = BasePayload
    /\ vaResults = <<>>
    /\ vaOutcome = "idle"
    /\ vaReport = <<>>
    /\ vaHeld = NoHeld

ClearResultsKeep(results) == results

\* self.validation_results.clear()
ClearResults(results) == <<>>

\* `return self.validation_results`: the value returned is a reference to
\* the one list the analyzer owns (__init__ creates it, clear() and append()
\* change it in place, nothing rebinds the attribute), so the list a caller
\* holds reads as self.validation_results does
HeldList(held, results) == results

\* one call analyze_game_data(game_data); `keep`: the caller binds the
\* returned list to its variable
Analyze(game_data, keep) ==
    LET run == AnalyzeGameData(game_data)
    IN  /\ vaPayload' = game_data
        /\ vaResults' = ClearResults(vaResults) \o run.issues
        /\ vaOutcome' = IF run.raised THEN "raised" ELSE "returned"
        /\ vaReport' = <<>>
        /\ vaHeld' = IF keep /\ ~run.raised
                     THEN [bound |-> TRUE, game_data |-> game_data]
                     ELSE vaHeld

Severities == {"info", "warning", "error", "critical"}

SeverityWeightLightCritical(severity) ==
    CASE severity = "info" -> 0
      [] severity = "warning" -> 2
      [] severity = "error" -> 6
      [] severity = "critical" -> 5

\* severity_weights, in tenths
SeverityWeight(severity) ==
    CASE severity = "info" -> 0
      [] severity = "warning" -> 2
      [] severity = "error" -> 6
      [] severity = "critical" -> 10

RECURSIVE TotalPenalty(_)
TotalPenalty(results) ==
    IF results = <<>> THEN 0
    ELSE SeverityWeight(Head(results).severity) + TotalPenalty(Tail(results))

\* get_quality_score as the fraction num / den
GetQualityScore(results) ==
    IF results = <<>> THEN [num |-> 1, den |-> 1]
    ELSE LET max_possible_penalty == Len(results) * 10
         IN  [num |-> Max2(0, max_possible_penalty - TotalPenalty(results)),
              den |-> max_possible_penalty]

WithSeverity(results, severity) ==
    {i \in DOMAIN results : results[i].severity = severity}

\* the loop over field_issues.items(): fields in order of first occurrence
RECURSIVE FieldRecommendations(_, _)
FieldRecommendations(results, i) ==
    IF i > Len(results) THEN <<>>
    ELSE LET field == results[i].field_name
             first == \A j \in 1..(i - 1) : results[j].field_name # field
             issues == {j \in DOMAIN results : results[j].field_name = field}
         IN  (IF first /\ Cardinality(issues) >= 3
              THEN <<[advice |-> "improve_field", field |-> field]>> ELSE <<>>)
             \o FieldRecommendations(results, i + 1)

GenerateRecommendations(results) ==
    (IF WithSeverity(results, "critical") # {}
     THEN <<[advice |-> "fix_missing_required", field |-> ""]>> ELSE <<>>)
    \o (IF WithSeverity(results, "error") # {}
        THEN <<[advice |-> "fix_consistency_errors", field |-> ""]>> ELSE <<>>)
    \o FieldRecommendations(results, 1)

RECURSIVE CriticalIssues(_)
CriticalIssues(results) ==
    IF results = <<>> THEN <<>>
    ELSE (IF Head(results).severity = "critical" THEN <<Head(results)>> ELSE <<>>)
         \o CriticalIssues(Tail(results))

SummaryReport(results) ==
    [quality_score |-> GetQualityScore(results),
     total_issues |-> Len(results),
     severity_breakdown |->
         [severity \in Severities |-> Cardinality(WithSeverity(results, severity))],
     critical_issues |-> CriticalIssues(results),
     recommendations |-> GenerateRecommendations(results)]

\* one call get_summary_report()
GetSummaryReport ==
    /\ vaReport' = <<SummaryReport(vaResults)>>
    /\ UNCHANGED <<vaPayload, vaResults, vaOutcome, vaHeld>>

IssueFields == {"overall", "name"}

\* one call _add_result(field, severity, ...) made directly on the analyzer
AddResult(field, severity) ==
    /\ Len(vaResults) < MaxIssues
    /\ vaResults' = Append(vaResults, ValidationResult(field, severity, "", NoValue, NoValue))
    /\ vaReport' = <<>>
    /\ UNCHANGED <<vaPayload, vaOutcome, vaHeld>>

(***************************************************************************)
(* AdaptiveRateLimiter.  The code compares differences of time.time()      *)
(* values only, so each timestamp is kept as its age in seconds; time      *)
(* passes in steps of half an adjustment interval and an age stops growing *)
(* at the largest cutoff the code compares it with.                        *)
(***************************************************************************)
adjustment_interval == 60

TickSeconds == adjustment_interval \div 2
AgeCap == adjustment_interval * 2
\* an age stops growing at cap, the largest value it is compared with
Older(age, cap) == Min2(age + TickSeconds, cap)

NoResponseTime == [given |-> FALSE, value |-> 0]
ResponseTimes ==
    {NoResponseTime, [given |-> TRUE, value |-> 3], [given |-> TRUE, value |-> 6]}

ADInit ==
    /\ adConfig \in [max_requests : {1, 2, 10},
                     time_window : {TickSeconds}]
    /\ ConfigAccepted(adConfig.max_requests, adConfig.time_window)
    /\ adLimits = [current_limit |-> adConfig.max_requests,
                   min_limit |-> Max2(1, adConfig.max_requests \div 10),
                   max_limit |-> adConfig.max_requests * 2]
    /\ adRequests = <<>>
    /\ adRecentErrors = <<>>
    /\ adRecentTimes = <<>>
    /\ adLastAdjustment = 0
    /\ adHist = [max_requests |-> adConfig.max_requests, responses |-> 0, failures |-> 0]

ADIdle ==
    /\ adConfig = [max_requests |-> 1, time_window |-> TickSeconds]
    /\ adLimits = [current_limit |-> 1, min_limit |-> 1, max_limit |-> 2]
    /\ adRequests = <<>> /\ adRecentErrors = <<>> /\ adRecentTimes = <<>>
    /\ adLastAdjustment = 0
    /\ adHist = [max_requests |-> 1, responses |-> 0, failures |-> 0]

RECURSIVE SumResponseTimes(_)
SumResponseTimes(times) ==
    IF times = <<>> THEN 0
    ELSE Head(times).response_time + SumResponseTimes(Tail(times))

DecreasedLimitNoFloor(current_limit, min_limit) == (current_limit * 8) \div 10

\* max(self.min_limit, int(self.current_limit * 0.8))
DecreasedLimit(current_limit, min_limit) ==
    Max2(min_limit, (current_limit * 8) \div 10)

IncreasedLimitNoCap(current_limit, max_limit) == (current_limit * 11) \div 10

\* min(self.max_limit, int(self.current_limit * 1.1))
IncreasedLimit(current_limit, max_limit) ==
    Min2(max_limit, (current_limit * 11) \div 10)

\* the current_limit _adjust_limits leaves once the interval has elapsed;
\* error_rate > 0.1 and avg_response_time > 5.0 by cross-multiplication
AdjustedLimit ==
    LET recent_errors == SelectSeq(adRecentErrors, LAMBDA err : err < adjustment_interval)
        recent_times == SelectSeq(adRecentTimes, LAMBDA rt : rt.age < adjustment_interval)
        requests == Max2(1, Len(adRequests))
        samples == Max2(1, Len(recent_times))
        total_time == SumResponseTimes(recent_times)
    IN  IF 10 * Len(recent_errors) > requests \/ total_time > 5 * samples
        THEN DecreasedLimit(adLimits.current_limit, adLimits.min_limit)
        ELSE IF 20 * Len(recent_errors) < requests /\ 2 * total_time < 5 * samples
        THEN IncreasedLimit(adLimits.current_limit, adLimits.max_limit)
        ELSE adLimits.current_limit

\* AdaptiveRateLimiter.acquire(weight): _adjust_limits, then base_limiter.acquire
AdaptiveAcquire(weight) ==
    /\ Len(adRequests) < MaxAdRecords
    /\ LET adjust == adLastAdjustment >= adjustment_interval
           limit == IF adjust THEN AdjustedLimit ELSE adLimits.current_limit
           max_requests == IF limit # adLimits.current_limit THEN limit
                           ELSE adConfig.max_requests
           pruned == SelectSeq(adRequests, LAMBDA req : req.age < adConfig.time_window)
           current_requests == Len(SelectSeq(pruned, LAMBDA req : req.success))
       IN  /\ adLimits' = [adLimits EXCEPT !.current_limit = limit]
           /\ adConfig' = [adConfig EXCEPT !.max_requests = max_requests]
           /\ adLastAdjustment' = IF adjust THEN 0 ELSE adLastAdjustment
           /\ adHist' = IF adjust THEN [adHist EXCEPT !.responses = 0, !.failures = 0]
                        ELSE adHist
           /\ adRequests' = IF current_requests + weight > max_requests THEN pruned
                            ELSE Append(pruned, [age |-> 0, success |-> TRUE])
    /\ UNCHANGED <<adRecentErrors, adRecentTimes>>

\* AdaptiveRateLimiter.record_response(success, response_time); adHist counts
\* the responses recorded after the last adjustment and less than 60 s after it
AdaptiveRecordResponse(success, response_time) ==
    /\ Len(adRecentErrors) < MaxAdResponses
    /\ Len(adRecentTimes) < MaxAdResponses
    /\ (0 < adLastAdjustment /\ adLastAdjustment < adjustment_interval)
          => adHist.responses < MaxAdResponses
    /\ adRequests' = IF adRequests # <<>>
                     THEN [adRequests EXCEPT ![Len(adRequests)].success = success]
                     ELSE adRequests
    /\ adRecentErrors' =
          SelectSeq(IF success THEN adRecentErrors ELSE Append(adRecentErrors, 0),
                    LAMBDA err : err < AgeCap)
    /\ adRecentTimes' =
          SelectSeq(IF response_time.given
                    THEN Append(adRecentTimes,
                                [age |-> 0, response_time |-> response_time.value])
                    ELSE adRecentTimes,
                    LAMBDA rt : rt.age < AgeCap)
    /\ adHist' = IF 0 < adLastAdjustment /\ adLastAdjustment < adjustment_interval
                 THEN [adHist EXCEPT !.responses = @ + 1,
                                     !.failures = IF success THEN @ ELSE @ + 1]
                 ELSE adHist
    /\ UNCHANGED <<adConfig, adLimits, adLastAdjustment>>

\* half an adjustment interval passes
AdaptiveTick ==
    /\ adRequests' = [i \in DOMAIN adRequests |->
                        [adRequests[i] EXCEPT !.age = Older(@, adConfig.time_window)]]
    /\ adRecentErrors' = [i \in DOMAIN adRecentErrors |-> Older(adRecentErrors[i], AgeCap)]
    /\ adRecentTimes' = [i \in DOMAIN adRecentTimes |->
                           [adRecentTimes[i] EXCEPT !.age = Older(@, AgeCap)]]
    /\ adLastAdjustment' = Older(adLastAdjustment, adjustment_interval)
    /\ UNCHANGED <<adConfig, adLimits, adHist>>

(***************************************************************************)
(* Cooperative tasks of one event loop sharing one limiter.  A task runs   *)
(* until it reaches an await that suspends it, so one action is the run of *)
(* one task from one suspension to the next.  Entering an unlocked         *)
(* asyncio.Lock does not suspend.  The limiter is the number of records it *)
(* holds; how many of them a prune drops is left open.                     *)
(***************************************************************************)
Workers == 1..MaxWorkers

LimiterKinds == {"sliding_window", "token_bucket", "adaptive", "steam_api"}

\* the classes with a record_response method
HasRecordResponse(kind) == kind \in {"sliding_window", "adaptive"}

AwaitsInLockedBodyAlways(kind, denied) == TRUE

\* the locked body of acquire reaches an await between its read and its
\* write: only `await asyncio.sleep(sleep_time)` of SteamAPIRateLimiter
AwaitsInLockedBody(kind, denied) == kind = "steam_api" /\ denied

WKInit ==
    /\ wkKind \in LimiterKinds
    /\ wkMaxRequests \in 1..MaxRequestsBound
    /\ wkRecords = 0
    /\ wkLedger = <<>>
    /\ wkLock = 0
    /\ wkPc = [w \in Workers |-> "idle"]
    /\ wkInterfered = FALSE

WKIdle ==
    /\ wkKind = "sliding_window" /\ wkMaxRequests = 1 /\ wkRecords = 0
    /\ wkLedger = <<>> /\ wkLock = 0 /\ wkPc = [w \in Workers |-> "idle"] /\ wkInterfered = FALSE

\* the oldest `pruned` records leave self.requests
LedgerPrune(ledger, pruned) == SubSeq(ledger, pruned + 1, Len(ledger))

\* self.requests.append(RequestRecord(timestamp=now)) by task w: success
\* defaults to True
LedgerAppend(ledger, kind, w) ==
    IF HasRecordResponse(kind)
    THEN Append(ledger, [owner |-> w, success |-> TRUE, own |-> "pending"])
    ELSE ledger

\* record_response(success, ...): `if self.requests:
\* self.requests[-1].success = success`
LedgerWrite(ledger, w, success) ==
    IF ledger # <<>> THEN [ledger EXCEPT ![Len(ledger)].success = success]
    ELSE ledger

\* history: the call of task w ended, whatever record the outcome went to
LedgerOutcome(ledger, w, success) ==
    [i \in DOMAIN ledger |->
        IF ledger[i].owner = w /\ ledger[i].own = "pending"
        THEN [ledger[i] EXCEPT !.own = IF success THEN "ok" ELSE "failed",
                               !.owner = 0]
        ELSE ledger[i]]

\* some other task is suspended inside the locked body of its acquire
MidSection(w) == \E other \in Workers \ {w} : wkPc[other] = "sleep_locked"

\* task w calls acquire and runs to its next suspension: blocked on the
\* lock, the sleep inside the lock, the caller's sleep of the returned
\* wait, or the HTTP request after a grant
WorkerAcquire(w, pruned) ==
    /\ wkPc[w] = "idle" \/ (wkPc[w] = "blocked" /\ wkLock = 0)
    /\ pruned <= wkRecords
    /\ LET adjusts == wkKind = "adaptive" /\ wkPc[w] = "idle"
           records == wkRecords - pruned
           denied == records >= wkMaxRequests
       IN  IF wkLock # 0
           THEN /\ pruned = 0
                /\ wkPc' = [wkPc EXCEPT ![w] = "blocked"]
                /\ wkInterfered' = (wkInterfered \/ (adjusts /\ MidSection(w)))
                /\ UNCHANGED <<wkRecords, wkLedger, wkLock>>
           ELSE /\ wkInterfered' = (wkInterfered \/ MidSection(w))
                /\ IF AwaitsInLockedBody(wkKind, denied)
                   THEN /\ wkLock' = w
                        /\ wkRecords' = records
                        /\ wkLedger' = LedgerPrune(wkLedger, pruned)
                        /\ wkPc' = [wkPc EXCEPT ![w] = "sleep_locked"]
                   ELSE /\ wkLock' = 0
                        /\ wkRecords' = IF denied THEN records ELSE records + 1
                        /\ wkLedger' =
                              IF denied THEN LedgerPrune(wkLedger, pruned)
                              ELSE LedgerAppend(LedgerPrune(wkLedger, pruned), wkKind, w)
                        /\ wkPc' = [wkPc EXCEPT ![w] = IF denied THEN "sleep" ELSE "http"]
    /\ UNCHANGED <<wkKind, wkMaxRequests>>

\* the sleep of task w is over: the caller's sleep returns to the caller,
\* the sleep inside the lock goes on to the write and leaves the lock
WorkerWake(w) ==
    /\ wkPc[w] \in {"sleep", "sleep_locked"}
    /\ IF wkPc[w] = "sleep"
       THEN /\ wkPc' = [wkPc EXCEPT ![w] = "idle"]
            /\ UNCHANGED <<wkRecords, wkLedger, wkLock>>
       ELSE /\ wkRecords' = IF wkKind = "steam_api"
                            THEN Max2(wkRecords - 1, 0) + 1
                            ELSE wkRecords + 1
            /\ wkLedger' = LedgerAppend(wkLedger, wkKind, w)
            /\ wkLock' = 0
            /\ wkPc' = [wkPc EXCEPT ![w] = "http"]
    /\ UNCHANGED <<wkKind, wkMaxRequests, wkInterfered>>

\* the HTTP response of task w arrives; the caller records it where the
\* limiter has record_response, which takes no lock
WorkerResponse(w, success) ==
    /\ wkPc[w] = "http"
    /\ wkPc' = [wkPc EXCEPT ![w] = "idle"]
    /\ wkInterfered' = (wkInterfered \/ (HasRecordResponse(wkKind) /\ MidSection(w)))
    /\ wkLedger' = IF HasRecordResponse(wkKind)
                   THEN LedgerOutcome(LedgerWrite(wkLedger, w, success), w, success)
                   ELSE wkLedger
    /\ UNCHANGED <<wkKind, wkMaxRequests, wkRecords, wkLock>>

(***************************************************************************)
(* The collection loop: IndieGameCollector.collect_indie_games and         *)
(* BatchCollector.run_collection_batch.  A raw Steam payload is a record   *)
(* of the fields is_indie_game reads, tagged as above.  A name is its text *)
(* and whether its lower-cased text contains demo, dlc, soundtrack or      *)
(* trailer; a developer or publisher name is its text and the              *)
(* major-publisher keywords its lower-cased text contains; a genre or      *)
(* category dict is its (tagged) description.                              *)
(***************************************************************************)
AppIds == {413150, 250900}

GameTitle == [text |-> "Stardew Valley", excluded |-> FALSE]
DemoTitle == [text |-> "Stardew Valley Demo", excluded |-> TRUE]
EmptyTitle == [text |-> "", excluded |-> FALSE]

NintendoName == [text |-> "Nintendo", contains |-> {"nintendo"}]
Team17Name == [text |-> "Team17", contains |-> {"ea"}]
StudioB == [text |-> "Studio B", contains |-> {}]
StudioC == [text |-> "Studio C", contains |-> {}]

collector_major_publishers ==
    {"valve", "electronic arts", "ea", "activision", "ubisoft", "bethesda",
     "square enix", "capcom", "bandai namco", "sega", "take-two", "nintendo",
     "sony", "microsoft", "rockstar"}

\* the descriptions d with "indie" in d.lower() or "independent" in d.lower()
GenreIndieDescriptions == {"Indie", "Independent"}
\* the descriptions d with "indie" in d.lower()
CategoryIndieDescriptions == {"Indie"}

\* the first position of a set of positions, 0 when there is none
FirstOf(positions) ==
    IF positions = {} THEN 0
    ELSE CHOOSE i \in positions : \A j \in positions : i <= j

\* a for loop over dicts that returns True at the first indie description and
\* raises AttributeError at the first description that is None
DescriptionLoop(seq, indie) ==
    LET hit == FirstOf({i \in 1..Len(seq) : seq[i].tag = "val" /\ seq[i].v \in indie})
        bad == FirstOf({i \in 1..Len(seq) : seq[i].tag = "none"})
    IN  IF hit # 0 /\ (bad = 0 \/ hit < bad) THEN "true"
        ELSE IF bad # 0 THEN "raise"
        ELSE "next"

NameSet(names) == {names[i].text : i \in 1..Len(names)}

IsIndieGameNoBasicCheck(game_data) ==
    LET genres == ListOrEmpty(game_data, "genres")
        developers == ListOrEmpty(game_data, "developers")
        publishers == ListOrEmpty(game_data, "publishers")
    IN  IF genres = <<>> THEN "false"
        ELSE IF DescriptionLoop(genres, GenreIndieDescriptions) = "true" THEN "true"
        ELSE IF Len(developers) <= 2 THEN "true"
        ELSE "false"

IsIndieGameGenreFirst(game_data) ==
    IF DescriptionLoop(ListOrEmpty(game_data, "genres"), GenreIndieDescriptions) = "true"
    THEN "true"
    ELSE "false"

\* is_indie_game(game_data): "true", "false" or "raise"
IsIndieGame(game_data) ==
    LET genres == ListOrEmpty(game_data, "genres")
        developers == ListOrEmpty(game_data, "developers")
        publishers == ListOrEmpty(game_data, "publishers")
        categories == ListOrEmpty(game_data, "categories")
        name == game_data["name"]
        in_genres == DescriptionLoop(genres, GenreIndieDescriptions)
        in_categories == DescriptionLoop(categories, CategoryIndieDescriptions)
    IN  IF ~(IsVal(game_data, "name") /\ name.v.text # "")
           \/ ~TruthyN(game_data, "steam_appid")
        THEN "false"
        ELSE IF ~TruthyL(game_data, "genres") THEN "false"
        ELSE IF ~TruthyL(game_data, "developers") /\ Len(genres) < 3 THEN "false"
        ELSE IF name.v.excluded THEN "false"
        ELSE IF ~(IsVal(game_data, "type") /\ game_data["type"].v = "game") THEN "false"
        ELSE IF IsNone(game_data, "publishers") THEN "raise"
        ELSE IF \E i \in 1..Len(publishers) :
                   publishers[i].contains \cap collector_major_publishers # {}
        THEN "false"
        ELSE IF in_genres # "next" THEN in_genres
        ELSE IF IsNone(game_data, "categories") THEN "raise"
        ELSE IF in_categories # "next" THEN in_categories
        ELSE IF /\ developers # <<>>
                /\ publishers # <<>>
                /\ NameSet(developers) = NameSet(publishers)
        THEN "true"
        ELSE IF IsNone(game_data, "developers") THEN "raise"
        ELSE IF Len(developers) <= 2 THEN "true"
        ELSE "false"

\* the payload meets one of the exclusion rules of is_indie_game: name or
\* steam_appid missing, genres empty, name with demo, dlc, soundtrack or
\* trailer, type other than "game", a major publisher
ExcludedByRules(game_data) ==
    \/ ~(IsVal(game_data, "name") /\ game_data["name"].v.text # "")
    \/ ~TruthyN(game_data, "steam_appid")
    \/ ~TruthyL(game_data, "genres")
    \/ game_data["name"].v.excluded
    \/ ~(IsVal(game_data, "type") /\ game_data["type"].v = "game")
    \/ \E i \in 1..Len(ListOrEmpty(game_data, "publishers")) :
          ListOrEmpty(game_data, "publishers")[i].contains
              \cap collector_major_publishers # {}

\* the payload meets one of the inclusion rules of is_indie_game: an indie
\* genre or category, developers == publishers, at most two developers
IncludedByRules(game_data) ==
    LET developers == ListOrEmpty(game_data, "developers")
        publishers == ListOrEmpty(game_data, "publishers")
    IN  \/ DescriptionLoop(ListOrEmpty(game_data, "genres"),
                           GenreIndieDescriptions) = "true"
        \/ DescriptionLoop(ListOrEmpty(game_data, "categories"),
                           CategoryIndieDescriptions) = "true"
        \/ /\ developers # <<>> /\ publishers # <<>>
           /\ NameSet(developers) = NameSet(publishers)
        \/ Len(developers) <= 2

\* the f-string of collect_indie_games that lists the genre descriptions
\* iterates game_data.get('genres', []): TypeError when the value is None
PrintGenresRaises(game_data) == IsNone(game_data, "genres")

\* ---- game_data: None, or a payload; the payload with every field absent is {}
AbsentT == [tag |-> "absent", v |-> EmptyTitle]
NoneT == [tag |-> "none", v |-> EmptyTitle]

PLFields == {"name", "steam_appid", "type", "genres", "developers", "publishers",
             "categories"}

EmptyGameData ==
    [name |-> AbsentT, steam_appid |-> AbsentN, type |-> AbsentS,
     genres |-> AbsentL, developers |-> AbsentL, publishers |-> AbsentL,
     categories |-> AbsentL]

NoGameData == [tag |-> "none", v |-> EmptyGameData]

IndieGameData(app_id) ==
    [name |-> Val(GameTitle), steam_appid |-> Val(app_id), type |-> Val("game"),
     genres |-> Val(<<Val("Indie"), Val("RPG")>>),
     developers |-> Val(<<IndieName>>), publishers |-> Val(<<IndieName>>),
     categories |-> Val(<<Val("Single-player")>>)]

\* three studios and an unrelated publisher: judged by the last rules only
StudioGameData(app_id) ==
    [name |-> Val(GameTitle), steam_appid |-> Val(app_id), type |-> Val("game"),
     genres |-> Val(<<Val("Action")>>),
     developers |-> Val(<<IndieName, StudioB, StudioC>>),
     publishers |-> Val(<<StudioB>>),
     categories |-> Val(<<Val("Single-player")>>)]

PLFieldDomain(field) ==
    CASE field = "name" -> {AbsentT, NoneT, Val(EmptyTitle), Val(DemoTitle)}
      [] field = "steam_appid" -> {AbsentN, NoneN, Val(0)}
      [] field = "type" -> {AbsentS, NoneS, Val("dlc")}
      [] field = "genres" ->
            {AbsentL, NoneL, Val(<<>>), Val(<<Val("Action"), NoneS>>),
             Val(<<Val("Action"), Val("RPG"), Val("Strategy")>>)}
      [] field = "developers" -> {AbsentL, NoneL, Val(<<>>), Val(<<IndieName, StudioB>>)}
      [] field = "publishers" ->
            {AbsentL, NoneL, Val(<<MajorName>>), Val(<<NintendoName>>),
             Val(<<Team17Name>>)}
      [] OTHER -> {AbsentL, NoneL, Val(<<Val("Indie")>>)}

PLDeviations(base) ==
    {base} \cup UNION {{[base EXCEPT ![field] = value] :
                            value \in PLFieldDomain(field)} : field \in PLFields}

\* what get_game_details can hand back for app_id
FetchResults(app_id) ==
    {NoGameData, Val(EmptyGameData)}
        \cup {Val(g) : g \in PLDeviations(IndieGameData(app_id))
                            \cup PLDeviations(StudioGameData(app_id))}

\* `if not game_data`
GameDataFalsy(game_data) == game_data.tag = "none" \/ game_data.v = EmptyGameData

\* the payload lacks id, name or type (absent or None)
MissingRequired(payload) ==
    \E field \in {"steam_appid", "name", "type"} : ~IsVal(payload, field)

\* ---- the storage collaborator.  One call of a cursor method ends "ok", with
\* a statement "error" that leaves the connection usable, or with the
\* connection "lost" (OperationalError now, InterfaceError from cursor() later)
DbOutcomes == {"ok", "error", "lost"}

\* check_existing_game once cursor() succeeded: fetchone() is not None, or
\* False from `except Exception`
CheckExistingGame(app_id, storage, db) ==
    IF db = "ok" THEN app_id \in storage ELSE FALSE

SkipsCandidateNever(exists) == FALSE

\* `if await self.check_existing_game(app_id): ... continue`
SkipsCandidate(exists) == exists

\* save_game_to_db once cursor() succeeded: the rows of games afterwards
SaveGameToDb(payload, storage, db) ==
    IF db = "ok" /\ IsVal(payload, "steam_appid")
    THEN storage \cup {payload["steam_appid"].v}
    ELSE storage

Terminal == {"Skipped", "Rejected", "Accepted"}

NewCandidate ==
    [state |-> "Pending", check |-> "none", existed |-> FALSE, fetched |-> "none",
     http |-> {}, saved |-> FALSE, excluded |-> FALSE, included |-> FALSE,
     verdict |-> "none", upserted |-> FALSE]

RECURSIVE SeqsUpTo(_, _)
SeqsUpTo(S, n) ==
    IF n = 0 THEN {<<>>}
    ELSE LET shorter == SeqsUpTo(S, n - 1)
         IN  shorter \cup {Append(seq, x) : seq \in shorter, x \in S}

PLInit ==
    /\ plDriver \in {"collect_indie_games", "run_collection_batch"}
    /\ plAppIds \in SeqsUpTo(AppIds, MaxCandidates)
    /\ plIndex = 1
    /\ plPc = IF plAppIds = <<>> THEN "finished" ELSE "check"
    /\ plGameData = NoGameData
    /\ plStorage \in SUBSET AppIds
    /\ plConnOpen = TRUE
    /\ plCounters = [total_processed |-> 0, skipped_existing |-> 0, indie_count |-> 0]
    /\ plCand = [i \in 1..Len(plAppIds) |-> NewCandidate]

PLIdle ==
    /\ plDriver = "collect_indie_games" /\ plAppIds = <<>> /\ plIndex = 1
    /\ plPc = "finished" /\ plGameData = NoGameData /\ plStorage = {}
    /\ plConnOpen = TRUE
    /\ plCounters = [total_processed |-> 0, skipped_existing |-> 0, indie_count |-> 0]
    /\ plCand = <<>>

\* the loop moves to the next candidate, or leaves the for statement
NextCandidate ==
    /\ plIndex' = plIndex + 1
    /\ plPc' = IF plIndex + 1 > Len(plAppIds) THEN "finished" ELSE "check"
    /\ plGameData' = NoGameData

Crash ==
    /\ plPc' = "crashed"
    /\ UNCHANGED <<plIndex, plGameData>>

\* top of the loop body: total_processed += 1, then check_existing_game
PLCheck(db) ==
    /\ plPc = "check"
    /\ LET app_id == plAppIds[plIndex]
           exists == CheckExistingGame(app_id, plStorage, db)
           processed == [plCounters EXCEPT !.total_processed = @ + 1]
       IN  IF ~plConnOpen
           THEN \* self.db_conn.cursor() raises before the try statement
                /\ Crash
                /\ plCounters' = processed
                /\ UNCHANGED <<plCand, plConnOpen>>
           ELSE /\ plConnOpen' = (db # "lost")
                /\ IF SkipsCandidate(exists)
                   THEN /\ plCounters' =
                              IF plDriver = "collect_indie_games"
                              THEN [processed EXCEPT !.skipped_existing = @ + 1]
                              ELSE processed
                        /\ plCand' = [plCand EXCEPT
                              ![plIndex].state = "Skipped",
                              ![plIndex].check = IF exists THEN "true" ELSE "false",
                              ![plIndex].existed = app_id \in plStorage]
                        /\ NextCandidate
                   ELSE /\ plCounters' = processed
                        /\ plCand' = [plCand EXCEPT
                              ![plIndex].state = "Fetching",
                              ![plIndex].check = IF exists THEN "true" ELSE "false",
                              ![plIndex].existed = app_id \in plStorage]
                        /\ plPc' = "fetch"
                        /\ UNCHANGED <<plIndex, plGameData>>
    /\ UNCHANGED <<plDriver, plAppIds, plStorage>>

\* get_game_details returned game_data; then the prints and is_indie_game,
\* up to the next await
PLFetch(game_data) ==
    /\ plPc = "fetch"
    /\ LET fetched == IF GameDataFalsy(game_data) THEN "None"
                      ELSE IF MissingRequired(game_data.v) THEN "defective"
                      ELSE "complete"
           judged == ~GameDataFalsy(game_data)
                         /\ ~(plDriver = "collect_indie_games"
                                 /\ PrintGenresRaises(game_data.v))
           requested == [plCand EXCEPT
                            ![plIndex].fetched = fetched,
                            ![plIndex].http = @ \cup {"details"},
                            ![plIndex].excluded = judged /\ ExcludedByRules(game_data.v),
                            ![plIndex].included = judged /\ IncludedByRules(game_data.v),
                            ![plIndex].verdict = IF judged THEN IsIndieGame(game_data.v)
                                                 ELSE "none"]
       IN  IF GameDataFalsy(game_data)
           THEN /\ plCand' = [requested EXCEPT ![plIndex].state = "Rejected"]
                /\ NextCandidate
                /\ UNCHANGED plCounters
           ELSE IF \/ plDriver = "collect_indie_games" /\ PrintGenresRaises(game_data.v)
                   \/ IsIndieGame(game_data.v) = "raise"
           THEN /\ plCand' = requested
                /\ Crash
                /\ UNCHANGED plCounters
           ELSE IF IsIndieGame(game_data.v) = "true"
           THEN /\ plCand' = requested
                /\ plCounters' = [plCounters EXCEPT !.indie_count = @ + 1]
                /\ plGameData' = game_data
                /\ plPc' = "review"
                /\ UNCHANGED plIndex
           ELSE /\ plCand' = [requested EXCEPT ![plIndex].state = "Rejected"]
                /\ NextCandidate
                /\ UNCHANGED plCounters
    /\ UNCHANGED <<plDriver, plAppIds, plStorage, plConnOpen>>

\* get_game_reviews returned (a summary, or None after any failure)
PLReview(review_ok) ==
    /\ plPc = "review"
    /\ plCand' = [plCand EXCEPT ![plIndex].http = @ \cup {"reviews"}]
    /\ plPc' = "save"
    /\ UNCHANGED <<plDriver, plAppIds, plIndex, plGameData, plStorage, plConnOpen,
                   plCounters>>

\* save_game_to_db, collected_games.append and the sleep that ends the body
PLSave(db) ==
    /\ plPc = "save"
    /\ IF ~plConnOpen
       THEN \* self.db_conn.cursor() raises before the try statement
            /\ Crash
            /\ plCand' = [plCand EXCEPT ![plIndex].saved = TRUE]
            /\ UNCHANGED <<plStorage, plConnOpen>>
       ELSE /\ plStorage' = SaveGameToDb(plGameData.v, plStorage, db)
            /\ plConnOpen' = (db # "lost")
            /\ plCand' = [plCand EXCEPT
                  ![plIndex].saved = TRUE,
                  ![plIndex].state = "Accepted",
                  ![plIndex].upserted = db = "ok" /\ IsVal(plGameData.v, "steam_appid")]
            /\ NextCandidate
    /\ UNCHANGED <<plDriver, plAppIds, plCounters>>

(***************************************************************************)
(* SteamAPIRateLimiter.acquire.  The body runs under self._lock; when the  *)
(* window is full it sleeps inside the lock, then drops the oldest record  *)
(* and appends the `now` it read before the sleep.  A task that finds the  *)
(* lock taken waits for it and reads `now` once inside, which is a call    *)
(* made when the lock is free.                                             *)
(***************************************************************************)
STPrune(reqs, t, window) ==
    SelectSeq(reqs, LAMBDA req_time : req_time > t - window)

\* sleep_time = (self.requests[0] - cutoff_time).total_seconds()
STSleepTime(reqs, t, window) == reqs[1] - (t - window)

STInit ==
    /\ stMaxRequests \in 1..MaxRequestsBound
    /\ stTimeWindow \in 1..MaxWindowBound
    /\ stRequests = <<>>
    /\ stLock = 0
    /\ stLocalNow = 0
    /\ stWakeAt = 0
    /\ stReturned = <<>>

STIdle ==
    /\ stMaxRequests = 1 /\ stTimeWindow = 1 /\ stRequests = <<>> /\ stLock = 0
    /\ stLocalNow = 0 /\ stWakeAt = 0 /\ stReturned = <<>>

\* task w enters the lock and runs to the return or to the sleep
STAcquire(w) ==
    /\ stLock = 0
    /\ LET pruned == STPrune(stRequests, now, stTimeWindow)
           returned == STPrune(stReturned, now, stTimeWindow)
       IN  IF Len(pruned) >= stMaxRequests
           THEN /\ stRequests' = pruned
                /\ stLock' = w
                /\ stLocalNow' = now
                /\ stWakeAt' = now + STSleepTime(pruned, now, stTimeWindow)
                /\ stReturned' = returned
           ELSE /\ stRequests' = Append(pruned, now)
                /\ stReturned' = Append(returned, now)
                /\ UNCHANGED <<stLock, stLocalNow, stWakeAt>>
    /\ UNCHANGED <<stMaxRequests, stTimeWindow>>

\* the sleep is over: self.requests = self.requests[1:], then
\* self.requests.append(now) with the `now` read before the sleep
STWake ==
    /\ stLock # 0
    /\ now >= stWakeAt
    /\ stRequests' = Append(Tail(stRequests), stLocalNow)
    /\ stReturned' = Append(STPrune(stReturned, now, stTimeWindow), now)
    /\ stLock' = 0
    /\ stLocalNow' = 0
    /\ stWakeAt' = 0
    /\ UNCHANGED <<stMaxRequests, stTimeWindow>>

(***************************************************************************)
(* BatchCollector.run_full_collection.  One action is one call of          *)
(* run_collection_batch, or one sleep between two calls.  The candidate    *)
(* loop inside a batch is the collection loop above; here a batch is the   *)
(* ids it took and the number of indie games it counted.                   *)
(***************************************************************************)
\* the lists without duplicates of n ids of S: list(set(...)), shuffled, [:limit]
Arrangements(S, n) ==
    {seq \in SeqsUpTo(S, n) :
        /\ Len(seq) = n
        /\ \A i, j \in 1..Len(seq) : i # j => seq[i] # seq[j]}

\* get_steam_game_list(limit)
GetSteamGameList(catalogue, limit) ==
    Arrangements(catalogue, Min2(limit, Cardinality(catalogue)))

\* processed_ids: the ids of every list of completed_batches
ProcessedIds(progress) ==
    UNION {{progress.completed_batches[b][i] :
                i \in 1..Len(progress.completed_batches[b])} :
           b \in 1..Len(progress.completed_batches)}

\* [app_id for app_id in app_ids if app_id not in processed_ids][:batch_size]
NewAppIds(app_ids, progress, batch_size) ==
    LET fresh == SelectSeq(app_ids, LAMBDA app_id : app_id \notin ProcessedIds(progress))
    IN  SubSeq(fresh, 1, Min2(batch_size, Len(fresh)))

\* what load_progress returns: the default, or a stored file
StoredProgress ==
    {[total_processed |-> 0, total_collected |-> 0, completed_batches |-> <<>>]}
        \cup {[total_processed |-> 1, total_collected |-> collected,
                completed_batches |-> <<<<app_id>>>>] :
                    collected \in 0..1, app_id \in AppIds}

\* `while current_collected < self.target_count`
TargetMissed(progress, target_count) == progress.total_collected < target_count

BCInit ==
    /\ bcTarget \in 1..MaxTarget
    /\ bcBatchSize \in 1..MaxBatchSize
    /\ bcCatalogue \in (SUBSET AppIds) \ {{}}
    /\ bcProgress \in StoredProgress
    /\ bcPc = IF TargetMissed(bcProgress, bcTarget) THEN "batch" ELSE "done"
    /\ bcRepeated = FALSE

BCIdle ==
    /\ bcTarget = 1 /\ bcBatchSize = 1 /\ bcCatalogue = AppIds
    /\ bcProgress = [total_processed |-> 0, total_collected |-> 0,
                     completed_batches |-> <<>>]
    /\ bcPc = "done" /\ bcRepeated = FALSE

\* run_collection_batch returned: app_ids is the list get_steam_game_list
\* gave, indie_count the games the batch judged indie; then the test of the
\* while statement
BCRunBatch(app_ids, indie_count) ==
    /\ bcPc = "batch"
    /\ LET new_app_ids == NewAppIds(app_ids, bcProgress, bcBatchSize)
           progress ==
               IF new_app_ids = <<>> THEN bcProgress
               ELSE [total_processed |-> bcProgress.total_processed + Len(new_app_ids),
                     total_collected |-> bcProgress.total_collected + indie_count,
                     completed_batches |->
                         Append(bcProgress.completed_batches, new_app_ids)]
       IN  /\ indie_count <= Len(new_app_ids)
           /\ bcProgress' = progress
           /\ bcRepeated' =
                 (bcRepeated \/ \E i \in 1..Len(new_app_ids) :
                                   new_app_ids[i] \in ProcessedIds(bcProgress))
           /\ bcPc' = IF TargetMissed(progress, bcTarget) THEN "rest" ELSE "done"
    /\ UNCHANGED <<bcTarget, bcBatchSize, bcCatalogue>>

\* run_collection_batch raised before it updated progress: `except
\* Exception`, asyncio.sleep(60), continue
BCBatchRaises ==
    /\ bcPc = "batch"
    /\ bcPc' = "recover"
    /\ UNCHANGED <<bcTarget, bcBatchSize, bcCatalogue, bcProgress, bcRepeated>>

\* the sleep between two batches is over; the while test still holds
BCWake ==
    /\ bcPc \in {"rest", "recover"}
    /\ bcPc' = "batch"
    /\ UNCHANGED <<bcTarget, bcBatchSize, bcCatalogue, bcProgress, bcRepeated>>

(***************************************************************************)
(* Specifications                                                          *)
(***************************************************************************)
SWIdle ==
    /\ swMaxRequests = 1 /\ swTimeWindow = 1 /\ swRequests = <<>>
    /\ swGranted = <<>> /\ swLastWait = -1 /\ swWakeAt = 0
    /\ swHist = SWNoHist

TBIdle ==
    /\ tbMaxRequests = 1 /\ tbTimeWindow = 1 /\ tbBurst = 1 /\ tbTokens = 1
    /\ tbLastRefill = 0
    /\ tbHist = [calls |-> 0, prevTime |-> 0, prevTokens |-> 0, prevWait |-> 0,
                 time |-> 0, evaluated |-> 0, wait |-> 0]

InitSW == now = 0 /\ SWInit /\ TBIdle /\ CLIdle /\ VAInit /\ PLIdle /\ ADIdle /\ WKIdle /\ STIdle /\ BCIdle

NextSW ==
    \/ Tick /\ UNCHANGED <<swVars, tbVars, clVars, vaVars, plVars, adVars, wkVars, stVars, bcVars>>
    \/ \E weight \in 1..MaxWeight :
          SWAcquire(weight) /\ UNCHANGED <<now, tbVars, clVars, vaVars, plVars, adVars, wkVars, stVars, bcVars>>
    \/ \E success \in BOOLEAN :
          SWRecordResponse(success) /\ UNCHANGED <<now, tbVars, clVars, vaVars, plVars, adVars, wkVars, stVars, bcVars>>

SpecSW == InitSW /\ [][NextSW]_vars

InitTB == now = 0 /\ TBInit /\ SWIdle /\ CLIdle /\ VAInit /\ PLIdle /\ ADIdle /\ WKIdle /\ STIdle /\ BCIdle

NextTB ==
    \/ Tick /\ UNCHANGED <<swVars, tbVars, clVars, vaVars, plVars, adVars, wkVars, stVars, bcVars>>
    \/ \E weight \in 1..MaxWeight :
          TBAcquire(weight) /\ UNCHANGED <<now, swVars, clVars, vaVars, plVars, adVars, wkVars, stVars, bcVars>>

SpecTB == InitTB /\ [][NextTB]_vars

\* one of the two limiters of rate_limiter.py serves the run
SWUntouched == swHist.calls = 0 /\ swRequests = <<>>
TBUntouched == tbHist.calls = 0

InitLimiters ==
    /\ now = 0 /\ CLIdle /\ VAInit /\ PLIdle /\ ADIdle /\ WKIdle /\ STIdle /\ BCIdle
    /\ \/ SWInit /\ TBIdle
       \/ SWIdle /\ TBInit

NextLimiters ==
    \/ Tick /\ UNCHANGED <<swVars, tbVars, clVars, vaVars, plVars, adVars, wkVars, stVars, bcVars>>
    \/ /\ TBUntouched
       /\ \E weight \in 1..MaxWeight :
             SWAcquire(weight) /\ UNCHANGED <<now, tbVars, clVars, vaVars, plVars, adVars, wkVars, stVars, bcVars>>
    \/ /\ TBUntouched
       /\ \E success \in BOOLEAN :
             SWRecordResponse(success) /\ UNCHANGED <<now, tbVars, clVars, vaVars, plVars, adVars, wkVars, stVars, bcVars>>
    \/ /\ SWUntouched
       /\ \E weight \in 1..MaxWeight :
             TBAcquire(weight) /\ UNCHANGED <<now, swVars, clVars, vaVars, plVars, adVars, wkVars, stVars, bcVars>>

SpecLimiters == InitLimiters /\ [][NextLimiters]_vars

InitAdaptive ==
    now = 0 /\ ADInit /\ SWIdle /\ TBIdle /\ CLIdle /\ VAInit /\ PLIdle /\ WKIdle /\ STIdle /\ BCIdle

NextAdaptive ==
    \/ AdaptiveTick /\ UNCHANGED <<now, swVars, tbVars, clVars, vaVars, plVars, wkVars, stVars, bcVars>>
    \/ \E weight \in 1..MaxWeight :
          AdaptiveAcquire(weight)
             /\ UNCHANGED <<now, swVars, tbVars, clVars, vaVars, plVars, wkVars, stVars, bcVars>>
    \/ \E success \in BOOLEAN, response_time \in ResponseTimes :
          AdaptiveRecordResponse(success, response_time)
             /\ UNCHANGED <<now, swVars, tbVars, clVars, vaVars, plVars, wkVars, stVars, bcVars>>

SpecAdaptive == InitAdaptive /\ [][NextAdaptive]_vars

InitWorkers ==
    now = 0 /\ WKInit /\ SWIdle /\ TBIdle /\ CLIdle /\ ADIdle /\ VAInit /\ PLIdle /\ STIdle /\ BCIdle

NextWorkers ==
    \/ \E w \in Workers, pruned \in 0..MaxRequestsBound :
          WorkerAcquire(w, pruned)
             /\ UNCHANGED <<now, swVars, tbVars, clVars, adVars, vaVars, plVars, stVars, bcVars>>
    \/ \E w \in Workers :
          WorkerWake(w) /\ UNCHANGED <<now, swVars, tbVars, clVars, adVars, vaVars, plVars, stVars, bcVars>>
    \/ \E w \in Workers, success \in BOOLEAN :
          WorkerResponse(w, success)
             /\ UNCHANGED <<now, swVars, tbVars, clVars, adVars, vaVars, plVars, stVars, bcVars>>

SpecWorkers == InitWorkers /\ [][NextWorkers]_vars

InitClient == now = 0 /\ CLInit /\ SWIdle /\ TBIdle /\ VAInit /\ PLIdle /\ ADIdle /\ WKIdle /\ STIdle /\ BCIdle

NextClient ==
    \/ \E outcome \in Outcomes :
          SteamApiAttempt(outcome) /\ UNCHANGED <<now, swVars, tbVars, vaVars, plVars, adVars, wkVars, stVars, bcVars>>
    \/ \E outcome \in Outcomes :
          CollectorAttempt(outcome) /\ UNCHANGED <<now, swVars, tbVars, vaVars, plVars, adVars, wkVars, stVars, bcVars>>
    \/ ClientWake /\ UNCHANGED <<now, swVars, tbVars, vaVars, plVars, adVars, wkVars, stVars, bcVars>>

SpecClient == InitClient /\ [][NextClient]_vars

InitValidator == now = 0 /\ VAInit /\ SWIdle /\ TBIdle /\ CLIdle /\ PLIdle /\ ADIdle /\ WKIdle /\ STIdle /\ BCIdle

NextValidator ==
    \/ \E game_data \in Payloads, keep \in BOOLEAN :
          /\ keep => game_data \in BasePayloads
          /\ Analyze(game_data, keep)
          /\ UNCHANGED <<now, swVars, tbVars, clVars, plVars, adVars, wkVars, stVars, bcVars>>
    \/ GetSummaryReport /\ UNCHANGED <<now, swVars, tbVars, clVars, plVars, adVars, wkVars, stVars, bcVars>>

SpecValidator == InitValidator /\ [][NextValidator]_vars

\* results added one by one, then scored
InitScore == now = 0 /\ VAInit /\ SWIdle /\ TBIdle /\ CLIdle /\ PLIdle /\ ADIdle /\ WKIdle /\ STIdle /\ BCIdle

NextScore ==
    \/ \E field \in IssueFields, severity \in Severities :
          AddResult(field, severity) /\ UNCHANGED <<now, swVars, tbVars, clVars, plVars, adVars, wkVars, stVars, bcVars>>
    \/ GetSummaryReport /\ UNCHANGED <<now, swVars, tbVars, clVars, plVars, adVars, wkVars, stVars, bcVars>>

SpecScore == InitScore /\ [][NextScore]_vars

InitPipeline == now = 0 /\ PLInit /\ SWIdle /\ TBIdle /\ CLIdle /\ VAInit /\ ADIdle /\ WKIdle /\ STIdle /\ BCIdle

NextPipeline ==
    \/ \E db \in DbOutcomes :
          PLCheck(db) /\ UNCHANGED <<now, swVars, tbVars, clVars, vaVars, adVars, wkVars, stVars, bcVars>>
    \/ /\ plPc = "fetch"
       /\ \E game_data \in FetchResults(plAppIds[plIndex]) :
             PLFetch(game_data) /\ UNCHANGED <<now, swVars, tbVars, clVars, vaVars, adVars, wkVars, stVars, bcVars>>
    \/ \E review_ok \in BOOLEAN :
          PLReview(review_ok) /\ UNCHANGED <<now, swVars, tbVars, clVars, vaVars, adVars, wkVars, stVars, bcVars>>
    \/ \E db \in DbOutcomes :
          PLSave(db) /\ UNCHANGED <<now, swVars, tbVars, clVars, vaVars, adVars, wkVars, stVars, bcVars>>

SpecPipeline == InitPipeline /\ [][NextPipeline]_vars

InitSteamLimiter ==
    now = 0 /\ STInit /\ SWIdle /\ TBIdle /\ CLIdle /\ ADIdle /\ WKIdle /\ VAInit
       /\ PLIdle /\ BCIdle

NextSteamLimiter ==
    \/ Tick /\ UNCHANGED <<swVars, tbVars, clVars, adVars, wkVars, vaVars, plVars, stVars, bcVars>>
    \/ \E w \in Workers :
          STAcquire(w)
             /\ UNCHANGED <<now, swVars, tbVars, clVars, adVars, wkVars, vaVars, plVars, bcVars>>
    \/ STWake /\ UNCHANGED <<now, swVars, tbVars, clVars, adVars, wkVars, vaVars, plVars, bcVars>>

SpecSteamLimiter == InitSteamLimiter /\ [][NextSteamLimiter]_vars

InitBatch ==
    now = 0 /\ BCInit /\ SWIdle /\ TBIdle /\ CLIdle /\ ADIdle /\ WKIdle /\ VAInit
       /\ PLIdle /\ STIdle

BatchReturns ==
    \E app_ids \in GetSteamGameList(bcCatalogue, bcBatchSize * 3),
       indie_count \in 0..MaxBatchSize :
        BCRunBatch(app_ids, indie_count)
           /\ UNCHANGED <<now, swVars, tbVars, clVars, adVars, wkVars, vaVars, plVars, stVars>>

NextBatch ==
    \/ BatchReturns
    \/ BCBatchRaises
          /\ UNCHANGED <<now, swVars, tbVars, clVars, adVars, wkVars, vaVars, plVars, stVars>>
    \/ BCWake /\ UNCHANGED <<now, swVars, tbVars, clVars, adVars, wkVars, vaVars, plVars, stVars>>

SpecBatch == InitBatch /\ [][NextBatch]_vars

\* the event loop keeps running the task, and a batch that is started again
\* and again does at some point run without raising
SpecBatchFair == SpecBatch /\ WF_vars(NextBatch) /\ SF_vars(BatchReturns)

(***************************************************************************)
(* Claims                                                                  *)
(***************************************************************************)

\* C1: sliding window never exceeds the limit: with only acquire(weight=1)
\* calls, the number of granted requests whose grant time lies in the
\* trailing time_window seconds never exceeds max_requests, whatever
\* outcome record_response recorded for them.
C1_SlidingWindowNeverExceedsLimit ==
    (\A i \in 1..Len(swGranted) : swGranted[i].weight = 1)
        => Len(SWPrune(swGranted, now, swTimeWindow)) <= swMaxRequests

\* Side lemma for C1: what the code does bound is the number of in-window
\* records still marked success.
SWSuccessfulWithinLimit ==
    (\A i \in 1..Len(swGranted) : swGranted[i].weight = 1)
        => SWCurrentRequests(SWPrune(swRequests, now, swTimeWindow)) <= swMaxRequests

\* C9: token bucket bounds: 0 <= tokens <= burst_size in every reachable
\* state (tokens are kept multiplied by time_window).
C9_TokenBounds ==
    /\ 0 <= tbTokens
    /\ tbTokens <= tbBurst * tbTimeWindow

\* Side lemma for C9: the bounds hold whenever burst_size is not negative.
TBBoundsForValidBurst ==
    tbBurst >= 0 => C9_TokenBounds

\* A step of a call whose server answers every attempt with HTTP 429.
Always429Step ==
    /\ \/ SteamApiAttempt("s429")
       \/ CollectorAttempt("s429")
       \/ ClientWake
    /\ UNCHANGED <<now, swVars, tbVars, vaVars, plVars, adVars, wkVars, stVars, bcVars>>

Only429 ==
    /\ clSession
    /\ \A i \in 1..Len(clResponses) : clResponses[i] = "s429"

\* C2: retry terminates: against a server that answers every attempt with
\* HTTP 429 the detail request never makes more than maxAttempts (3) HTTP
\* attempts, can always take its next step until it has returned, and when
\* it has returned it reports failure (None) after exactly 3 attempts.
C2_RetryTerminates ==
    /\ Len(clResponses) <= 3
    /\ Len(clSleeps) <= Len(clResponses)
    /\ (Only429 /\ clPc # "done") => ENABLED Always429Step
    /\ (Only429 /\ clPc = "done" /\ clResult # "pending")
          => (clResult = "None" /\ Len(clResponses) = 3)

C2_Witness ==
    /\ clPc = "done"
    /\ clResult = "None"
    /\ clResponses = <<"s429", "s429", "s429">>

\* C3: every HTTP attempt is followed by exactly one record_response call
\* before the next attempt starts or the call returns: the number of
\* record_response calls equals the number of HTTP attempts.
C3_OneRecordPerAttempt ==
    clPc \in {"attempt", "done"} => clRecordCalls = Len(clResponses)

SoftFailures == {"soft_fail", "s429", "http_error", "timeout", "client_error",
                 "exception"}

\* C5: a detail fetch never escalates a soft failure: when every attempt of
\* a returned call ended in a soft failure (200 with success=false or no
\* entry, a non-200 status, a timeout, an exception of the session), the call
\* returned None and did not raise.
C5_SoftFailureReturnsNone ==
    /\ clResult # "raise"
    /\ (/\ clPc = "done" /\ clResult # "pending"
        /\ \A i \in 1..Len(clResponses) : clResponses[i] \in SoftFailures)
          => clResult = "None"

C5_Witness ==
    /\ clPc = "done"
    /\ clResult = "None"
    /\ Len(clResponses) = 3
    /\ clResponses[1] = "timeout"
    /\ clResponses[3] = "exception"

\* C4: analyze_game_data never raises: for every payload the call returns
\* its issue list, and every required field (app_id, name, type) that is
\* absent or None shows up in that list as a Critical issue.
C4_AnalyzeNeverRaises ==
    vaOutcome # "idle" =>
        /\ vaOutcome = "returned"
        /\ \A i \in 1..Len(critical_fields) :
              (~Has(vaPayload, critical_fields[i]) \/ IsNone(vaPayload, critical_fields[i]))
                 => \E j \in 1..Len(vaResults) :
                        /\ vaResults[j].field_name = critical_fields[i]
                        /\ vaResults[j].severity = "critical"

Ended == {"finished", "crashed"}

\* C6: the pipeline continues on partial failure: whenever collect_indie_games
\* has stopped running, it has visited every candidate of the list, each
\* candidate has reached one terminal state (Skipped, Rejected or Accepted),
\* and total_processed equals the number of candidates.
C6_ContinuesOnPartialFailure ==
    (plDriver = "collect_indie_games" /\ plPc \in Ended) =>
        /\ \A i \in 1..Len(plAppIds) : plCand[i].state \in Terminal
        /\ plCounters.total_processed = Len(plAppIds)

\* Side lemma for C6: a run of the loop that leaves the for statement has
\* visited every candidate and counted each one.
PLFinishedVisitedAll ==
    plPc = "finished" =>
        /\ \A i \in 1..Len(plAppIds) : plCand[i].state \in Terminal
        /\ plCounters.total_processed = Len(plAppIds)

\* C7, as stated: a candidate whose id was in storage when its existence
\* check ran is counted as Skipped and no HTTP request is issued for it.
C7_ExistingIdNeverFetched ==
    \A i \in 1..Len(plAppIds) :
        (plCand[i].check # "none" /\ plCand[i].existed) =>
            /\ plCand[i].state = "Skipped"
            /\ plCand[i].http = {}

\* C7, amended: a detail or review request is issued for a candidate only
\* after check_existing_game returned false for it; a candidate for which
\* check_existing_game returned true is Skipped, no HTTP request is issued
\* for it, and collect_indie_games counts it in skipped_existing.
C7_FetchGatedByCheck ==
    /\ \A i \in 1..Len(plAppIds) :
          /\ plCand[i].http # {} => plCand[i].check = "false"
          /\ plCand[i].state \in {"Fetching", "Rejected", "Accepted"}
                => plCand[i].check = "false"
          /\ plCand[i].check = "true" =>
                (plCand[i].state = "Skipped" /\ plCand[i].http = {})
    /\ plDriver = "collect_indie_games" =>
          plCounters.skipped_existing =
              Cardinality({i \in 1..Len(plAppIds) : plCand[i].check = "true"})

C7_Witness ==
    \E i, j \in 1..Len(plAppIds) :
        /\ plCand[i].check = "true" /\ plCand[i].state = "Skipped"
        /\ plCand[j].check = "false" /\ plCand[j].existed
        /\ "details" \in plCand[j].http

C10_MonotonicRefill ==
    (tbHist.calls >= 2 /\ tbHist.time > tbHist.prevTime) =>
        tbHist.evaluated =
            Min2(tbBurst * tbTimeWindow,
                 tbHist.prevTokens + (tbHist.time - tbHist.prevTime) * tbMaxRequests)

\* the T1 call was denied and the refill at T2 stays under the cap
C10_Witness ==
    /\ tbHist.calls >= 2
    /\ tbHist.time > tbHist.prevTime
    /\ tbHist.prevWait > 0
    /\ tbHist.evaluated > tbHist.prevTokens
    /\ tbHist.evaluated < tbBurst * tbTimeWindow

C19_AcceptedConfigValid ==
    /\ tbMaxRequests > 0
    /\ tbTimeWindow > 0
    /\ tbBurst >= 1

\* Side lemma for C19: what construction does guarantee.
AcceptedConfigPositive ==
    /\ tbMaxRequests > 0
    /\ tbTimeWindow > 0

\* C20: a denied acquire does not consume capacity: a sliding-window acquire
\* that returns wait > 0 leaves the records as pruned and appends nothing, a
\* token-bucket acquire that returns wait > 0 leaves the refilled count
\* undeducted; a record is appended / tokens are deducted only by a call
\* that returns 0.
C20_DeniedKeepsCapacity ==
    [][/\ (\E weight \in 1..MaxWeight : SWAcquire(weight)) =>
            LET pruned == SWPrune(swRequests, now, swTimeWindow)
            IN  /\ swLastWait' > 0 => swRequests' = pruned
                /\ swRequests' # pruned =>
                      (swLastWait' = 0 /\ swRequests' = Append(pruned, RequestRecord(now)))
       /\ (\E weight \in 1..MaxWeight : TBAcquire(weight)) =>
            /\ tbHist'.wait > 0 => tbTokens' = tbHist'.evaluated
            /\ tbTokens' # tbHist'.evaluated => tbHist'.wait = 0
      ]_vars

\* a sliding-window acquire(1) was denied while records are in the window
C20_Witness ==
    /\ swLastWait > 0
    /\ swHist.weight = 1
    /\ swRequests # <<>>

ReviewWarned(results, calculated_total) ==
    \E i \in DOMAIN results :
        /\ results[i].field_name = "reviews"
        /\ results[i].severity = "warning"
        /\ results[i].suggested_value = <<calculated_total>>

\* C18: a completed analysis holds a Warning on 'reviews' whose
\* suggested_value is positive + negative exactly when the declared total
\* differs from that sum by more than 5% of the sum (for a sum > 0, where
\* the ratio is defined).
C18_ReviewWarningBeyondTolerance ==
    vaOutcome = "returned" =>
        LET calculated_total == NumOrZero(vaPayload, "positive_reviews")
                                 + NumOrZero(vaPayload, "negative_reviews")
            total == NumOrZero(vaPayload, "total_reviews")
            difference == IF total >= calculated_total THEN total - calculated_total
                          ELSE calculated_total - total
        IN  calculated_total > 0 =>
               (ReviewWarned(vaResults, calculated_total)
                   <=> (100 * difference > 5 * calculated_total))

\* Side lemma for C18: the warning is there exactly when some review count
\* is positive and the declared total differs from the sum at all.
ReviewWarningOnAnyDifference ==
    vaOutcome = "returned" =>
        LET positive == NumOrZero(vaPayload, "positive_reviews")
            negative == NumOrZero(vaPayload, "negative_reviews")
            total == NumOrZero(vaPayload, "total_reviews")
        IN  ReviewWarned(vaResults, positive + negative)
               <=> ((positive > 0 \/ negative > 0) /\ total # positive + negative)

C17_ScoreBounds ==
    /\ [](LET score == GetQualityScore(vaResults)
          IN  /\ score.den > 0
              /\ 0 <= score.num /\ score.num <= score.den
              /\ vaResults = <<>> => score.num = score.den)
    /\ [][(/\ Len(vaResults') = Len(vaResults) + 1
           /\ vaResults'[Len(vaResults')].severity = "critical")
            => LET before == GetQualityScore(vaResults)
                   after == GetQualityScore(vaResults')
               IN  after.num * before.den <= before.num * after.den]_vars

\* a Critical result was appended after an Error and the score stays
\* strictly inside (0, 1)
C17_Witness ==
    /\ Len(vaResults) >= 2
    /\ vaResults[Len(vaResults)].severity = "critical"
    /\ vaResults[1].severity = "error"
    /\ LET score == GetQualityScore(vaResults)
       IN  0 < score.num /\ score.num < score.den

\* C11: the adaptive limit stays within its bounds: always
\* min_limit <= current_limit <= max_limit, with min_limit =
\* max(1, max_requests div 10) and max_limit = 2 * max_requests for the
\* max_requests the limiter was constructed with.
C11_AdaptiveLimitBounds ==
    /\ adLimits.min_limit <= adLimits.current_limit
    /\ adLimits.current_limit <= adLimits.max_limit
    /\ adLimits.min_limit = Max2(1, adHist.max_requests \div 10)
    /\ adLimits.max_limit = 2 * adHist.max_requests

\* a limiter constructed with max_requests = 10 was adjusted up to max_limit
C11_Witness ==
    /\ adHist.max_requests = 10
    /\ adLimits.current_limit = adLimits.max_limit
    /\ adConfig.max_requests = adLimits.current_limit

\* C12: when more than 10% of the responses recorded during the 60 s after
\* an adjustment are failures, the adjustment made by the next acquire after
\* those 60 s leaves current_limit no lower than min_limit and strictly
\* lower than it was (when it was above min_limit).
C12_ErrorsShrinkLimit ==
    [][(/\ \E weight \in 1..MaxWeight : AdaptiveAcquire(weight)
        /\ adLastAdjustment >= adjustment_interval
        /\ adHist.responses > 0
        /\ 10 * adHist.failures > adHist.responses)
         => /\ adLimits'.current_limit >= adLimits.min_limit
            /\ adLimits.current_limit > adLimits.min_limit
                  => adLimits'.current_limit < adLimits.current_limit]_vars

\* Side lemma for C12: the limit shrinks when a failure lies less than 60 s
\* before the adjusting acquire and fewer than ten records are in the base
\* limiter.
RecentErrorShrinksLimit ==
    [][(/\ \E weight \in 1..MaxWeight : AdaptiveAcquire(weight)
        /\ adLastAdjustment >= adjustment_interval
        /\ \E i \in DOMAIN adRecentErrors : adRecentErrors[i] < adjustment_interval
        /\ Len(adRequests) < 10)
         => /\ adLimits'.current_limit >= adLimits.min_limit
            /\ adLimits.current_limit > adLimits.min_limit
                  => adLimits'.current_limit < adLimits.current_limit]_vars

\* C14: the read-modify-write sections on one limiter are mutually
\* exclusive under every interleaving of cooperative tasks: no
\* record_response, limit adjustment or other acquire ever runs while a task
\* is between the read and the write of its acquire, and at most one task is
\* there, holding the lock.
C14_SectionsExclusive ==
    /\ wkInterfered = FALSE
    /\ Cardinality({w \in Workers : wkPc[w] = "sleep_locked"}) <= 1
    /\ \A w \in Workers : wkPc[w] = "sleep_locked" => wkLock = w

\* two tasks were granted by one adaptive limiter and both await their
\* HTTP responses, each to be recorded
C14_Witness ==
    /\ wkKind = "adaptive"
    /\ \E w1 \in Workers, w2 \in Workers :
          w1 # w2 /\ wkPc[w1] = "http" /\ wkPc[w2] = "http"

\* C15: no limiter lock is held across a wait: whenever a task sleeps out a
\* rate-limit wait or awaits an HTTP response, the limiter's lock is free.
C15_NoLockAcrossWait ==
    (\E w \in Workers : wkPc[w] \in {"sleep", "sleep_locked", "http"}) => wkLock = 0

\* Side lemma for C15: the limiters of rate_limiter.py never keep the lock
\* across a suspension.
LockFreeOutsideSteamApi ==
    wkKind # "steam_api" => wkLock = 0

\* Side lemma for C15: a second task is blocked on the lock only while
\* another task sleeps inside SteamAPIRateLimiter.acquire.
BlockedOnlyBehindSleep ==
    (\E w \in Workers : wkPc[w] = "blocked" /\ wkLock # 0)
        => \E other \in Workers : wkPc[other] = "sleep_locked" /\ wkLock = other

\* C21: an adaptive adjustment is evaluated only when at least 60 s have
\* passed since the previous one; then the limit becomes
\* max(min_limit, current_limit * 0.8) if the error rate is above 0.1 or the
\* average latency above 5 s, min(max_limit, current_limit * 1.1) if the
\* error rate is below 0.05 and the average latency below 2.5 s, and stays
\* otherwise; the wrapped limiter's max_requests is current_limit when the
\* acquire is delegated.
C21_AdjustmentRule ==
    [][(\E weight \in 1..MaxWeight : AdaptiveAcquire(weight)) =>
          LET errors == Cardinality({i \in DOMAIN adRecentErrors :
                                        adRecentErrors[i] < adjustment_interval})
              timed == SelectSeq(adRecentTimes,
                                 LAMBDA rt : rt.age < adjustment_interval)
              latency == SumResponseTimes(timed)
              samples == Max2(1, Len(timed))
              requests == Max2(1, Len(adRequests))
              current == adLimits.current_limit
              expected ==
                  IF adLastAdjustment < adjustment_interval THEN current
                  ELSE IF 10 * errors > requests \/ latency > 5 * samples
                  THEN Max2(adLimits.min_limit, (current * 8) \div 10)
                  ELSE IF 20 * errors < requests /\ 2 * latency < 5 * samples
                  THEN Min2(adLimits.max_limit, (current * 11) \div 10)
                  ELSE current
          IN  /\ adLimits'.current_limit = expected
              /\ adConfig'.max_requests = adLimits'.current_limit]_vars

\* a limiter constructed with max_requests = 10 was shrunk to 8 and its
\* wrapped limiter follows
C21_Witness ==
    /\ adHist.max_requests = 10
    /\ adLimits.current_limit = 8
    /\ adConfig.max_requests = 8

RECURSIVE GrantedWeight(_)
GrantedWeight(granted) ==
    IF granted = <<>> THEN 0
    ELSE Head(granted).weight + GrantedWeight(Tail(granted))

\* C25: the sliding window accounts for weight: the total weight of the
\* requests granted in the trailing time_window never exceeds max_requests
\* (stated for windows whose records are all marked successful).
C25_WeightWithinLimit ==
    (\A i \in DOMAIN swRequests : swRequests[i].success)
        => GrantedWeight(SWPrune(swGranted, now, swTimeWindow)) <= swMaxRequests

\* C27: adaptive adjustments leave the configured base limit unchanged: the
\* limiter's config.max_requests, reported as base_limit, is the
\* max_requests it was constructed with.
C27_BaseLimitUnchanged ==
    adConfig.max_requests = adHist.max_requests

RECURSIVE Pow(_, _)
Pow(base, n) == IF n = 0 THEN 1 ELSE base * Pow(base, n - 1)

\* C22: the delay the client sleeps after a failed attempt k (k = 0, 1, ...)
\* is min(max_backoff_time, backoff_factor^k) for the backoff_factor and
\* max_backoff_time of the limiter configuration, so the delays never
\* decrease and never exceed max_backoff_time.
C22_BackoffDelay ==
    \A i \in DOMAIN clSleeps :
        LET k == i - 1
            scale == Pow(backoff_factor.den, k)
        IN  /\ clSleeps[i] * scale
                  = Min2(max_backoff_time * scale, Pow(backoff_factor.num, k))
            /\ i > 1 => clSleeps[i - 1] <= clSleeps[i]

\* Side lemma for C22: the delays the clients do sleep: 2^k after a 429 and
\* 1 s after a timeout or error in get_game_details, 4 s between the
\* attempts of _make_request; they never decrease and stay within 10 s.
HardCodedDelays ==
    \A i \in DOMAIN clSleeps :
        /\ clSleeps[i] = (IF clKind = "steam_api" THEN wait_exponential_min
                          ELSE IF clResponses[i] = "s429" THEN Pow(2, i - 1) ELSE 1)
        /\ clSleeps[i] <= wait_exponential_max
        /\ i > 1 => clSleeps[i - 1] <= clSleeps[i]

C29_CountersMatchUpserts ==
    /\ plCounters.skipped_existing + plCounters.indie_count
          <= plCounters.total_processed
    /\ plPc \in {"check", "finished"} =>
          /\ plCounters.indie_count
                = Cardinality({i \in 1..Len(plCand) : plCand[i].upserted})
          /\ \A i \in 1..Len(plCand) :
                plCand[i].state = "Accepted" => plCand[i].upserted

\* Side lemma for C29: the counters that do hold: skipped + accepted never
\* exceed processed, and indie_count is the number of candidates judged
\* indie, each of them appended to collected_games once its save returned.
CountersMatchVerdicts ==
    /\ plCounters.skipped_existing + plCounters.indie_count
          <= plCounters.total_processed
    /\ plCounters.indie_count
          = Cardinality({i \in 1..Len(plCand) : plCand[i].verdict = "true"})
    /\ plPc \in {"check", "finished"} =>
          plCounters.indie_count
              = Cardinality({i \in 1..Len(plCand) : plCand[i].state = "Accepted"})

\* C28: the issue list one analyze_game_data call returned is not changed by
\* later calls on the same analyzer: the list the caller holds for game_data
\* A still contains exactly A's issues after B was validated.
C28_ReturnedListKept ==
    vaHeld.bound =>
        HeldList(vaHeld, vaResults) = AnalyzeGameData(vaHeld.game_data).issues

\* C26: with several workers sharing one limiter, each record_response
\* updates the record its own worker's granted acquire created: a record
\* whose call has not ended still has the default success = True, and a
\* record whose call ended carries that call's outcome; no request keeps
\* success = True after its own call failed.
C26_OutcomeOnOwnRecord ==
    \A i \in 1..Len(wkLedger) :
        wkLedger[i].success = (wkLedger[i].own # "failed")

\* C23: SteamAPIRateLimiter: whatever acquire calls one or several tasks
\* make, the calls that returned within the trailing time_window, counted
\* at the moment a call returns, never number more than max_requests.
C23_ReturnsWithinLimit ==
    Len(STPrune(stReturned, now, stTimeWindow)) <= stMaxRequests

\* C30: run_full_collection terminates for any finite catalogue and stored
\* progress: when a batch finds no new app ids or collects no indie game the
\* loop does not repeat forever, and no id of completed_batches is
\* processed again.
C30_FullCollectionTerminates ==
    /\ <>(bcPc = "done")
    /\ [](~bcRepeated)

\* Side lemma for C30: the part of it that holds: a batch never takes an id
\* of completed_batches again, and no id stands twice in completed_batches.
NoIdProcessedAgain ==
    /\ ~bcRepeated
    /\ \A a, b \in 1..Len(bcProgress.completed_batches) :
          \A i \in 1..Len(bcProgress.completed_batches[a]),
             j \in 1..Len(bcProgress.completed_batches[b]) :
              (bcProgress.completed_batches[a][i] = bcProgress.completed_batches[b][j])
                  => (a = b /\ i = j)

====
